---- MODULE Spec2Model ----
(***************************************************************************)
(* A model of the Redis-backed job queue (packages/bun-queue): the queue   *)
(* state machine kept in Redis lists/sets/hashes, the worker loop with its *)
(* per-job lock, the stalled-job checker, the priority pump, the           *)
(* distributed lock, the leader election and the rate-limit script.        *)
(*                                                                         *)
(* Time is a discrete clock `now`.  One unit of the clock stands for the   *)
(* stalled threshold (10 s); delays and lock durations are given in the    *)
(* same unit.  Every Redis command is one atomic step; a MULTI/EXEC block  *)
(* is one atomic step; consecutive awaits of one handler are merged into   *)
(* one step only where no claim depends on an interleaving between them.   *)
(***************************************************************************)
EXTENDS Integers, Sequences, FiniteSets, TLC

\* ------------------------------------------------------------------ bounds
MaxJobs == 3
MaxWorkers == 2
MaxTime == 1
MaxAdds == 2
MaxAttempts == 2
MaxDelay == 1
MaxStalledRetries == 1

JobIds == 1..MaxJobs
Workers == 1..MaxWorkers
NoTime == 0 - 1
\* GET of a key that does not exist: no worker's token is stored
NoWorker == 0

\* ------------------------------------------------------------- Redis lists
\* LPUSH key v: insert at the head of the list
LPush(list, v) == <<v>> \o list

\* RPUSH key v: insert at the tail of the list
RPush(list, v) == Append(list, v)

RECURSIVE LRemAll(_, _)
\* LREM key 0 v: remove every occurrence of v
LRemAll(list, v) ==
  IF list = <<>> THEN <<>>
  ELSE IF Head(list) = v THEN LRemAll(Tail(list), v)
       ELSE <<Head(list)>> \o LRemAll(Tail(list), v)

RECURSIVE LRemOne(_, _)
\* LREM key 1 v: remove the first occurrence of v, from the head
LRemOne(list, v) ==
  IF list = <<>> THEN <<>>
  ELSE IF Head(list) = v THEN Tail(list)
       ELSE <<Head(list)>> \o LRemOne(Tail(list), v)

\* LRANGE key 0 (n-1)
LRange(list, n) == SubSeq(list, 1, IF n < Len(list) THEN n ELSE Len(list))

InList(list, v) == \E i \in 1..Len(list) : list[i] = v

\* history logs keep the first occurrence of each id
LogFirst(log, x) == IF InList(log, x) THEN log ELSE Append(log, x)

RECURSIVE Pow2(_)
Pow2(n) == IF n <= 0 THEN 1 ELSE 2 * Pow2(n - 1)

\* ------------------------------------------------------------------- state
VARIABLES
  now,          \* Date.now()
  job,          \* job:{id} hashes
  waiting,      \* list
  active,       \* list
  completed,    \* list
  failed,       \* list
  delayed,      \* sorted set: id -> score, NoTime when absent
  depWait,      \* the dependency-wait set
  dependents,   \* job:{id}:dependents sets
  jobLock,      \* lock:job:{id}: the worker whose token is stored, or NoWorker
  running,      \* Worker.running
  concurrency,  \* Worker.concurrency
  processing,   \* Worker.processing (the keys of the map)
  wpc,          \* position of the worker's processJobs() call
  wReady,       \* moveDelayedJobsToWaiting: the ids read by ZRANGEBYSCORE
  wBatch,       \* processJobs: the ids read by LRANGE waiting
  tpc,          \* position of processJob(jobId) of each worker
  handed,       \* history: handler invocations per job id since its last add
  everCompleted,\* history: the job id completed since its last add
  mustWait,     \* history: dependencies found unfinished when the job was added
  adds,         \* history: number of add() calls
  dispatched,   \* history: the job ids in the order of their moveToActive
  submitted,    \* history: the job ids in the order of their add
  notBefore,    \* history: submission timestamp + delay of each job id
  ppc,          \* PriorityQueue.moveJobsToWaiting: the level of the pass, NoLevel when idle
  pRead,        \* PriorityQueue.moveJobsToWaiting: the ids read by LRANGE of the level
  prio,         \* priority:{n} lists of a PriorityQueue
  reorder,      \* PriorityQueue.reorderJobs: position and the ids read from the levels
  lockVal,      \* DistributedLock: the token stored under the lock key, 0 when absent
  lockTtl,      \* DistributedLock: remaining life of the lock key
  nextToken,    \* DistributedLock: generateId()
  cpc,          \* DistributedLock: position of each client
  ctoken,       \* DistributedLock: the token each client got from acquire
  released,     \* DistributedLock: the last result of release of each client
  leaderKey,    \* LeaderElection: leader:current, <<instanceId, timestamp>> or <<>>
  leaderTtl,    \* LeaderElection: remaining life of the leader key
  isLeader,     \* LeaderElection.isLeader of each instance
  currentLeaderId, \* LeaderElection.currentLeaderId of each instance
  lpc,          \* LeaderElection: position of each instance's watchdog
  limitSet,     \* RateLimiter: the sorted set limit:{identifier}, members <<score, member>>
  admitted,     \* RateLimiter history: timestamps of the checks that returned limited = 0
  radd,         \* Queue.add with a limiter: position, id, delay asked for, opts.delay, resetIn
  deadLetter,   \* the list {queue}-dead-letter
  dlRecord,     \* the hashes {queue}-dead-letter:{id}
  dlEnabled,    \* Queue.defaultDeadLetterOptions.enabled
  dlRemove,     \* DeadLetterQueue.options.removeFromOriginalQueue
  dlPc,         \* position of republishJob(id)
  dlResult,     \* history: what the last republishJob(id) returned
  paused,       \* the key <queue>:paused: absent, the string '1', or a list of ids
  pauseCalled,  \* history: pause() was called and resume() was not called since
  spc,          \* position of startHorizontalScaling of each instance
  instances,    \* the set <coordinator>:instances
  instanceInfo, \* the key <coordinator>:instance:<id>: when it was SET, its lastHeartbeat
  ran,          \* history: <<task, instance, whether it was leader>> of singleton tasks
  observing,    \* whether the two histories below are kept in this run
  thrown,       \* history: how often the handler threw for the job since its add
  jobStalled,   \* history: how many jobStalled events were emitted for the job
  crashed,      \* the instances whose process has died
  crashedAt,    \* history: Date.now() at the crash of the leader, NoTime before it
  watched,      \* the instances whose watchdog timer fired since the clock advanced
  became,       \* history: the instances becomeLeader made leader since the crash
  cycled,       \* history: the instances that completed a coordinateWork cycle
  target,       \* history: totalWorkers of the last calculateWorkerDistribution
  coordWorkers, \* WorkCoordinator.workers of each instance
  scaleConcurrency, \* Worker.concurrency of the worker of each instance, 0 before startWorker
  adjusted,     \* history: the adjustConcurrency calls of the adjustment timer, and a throw
  progress,     \* the progress field of job:{id}
  call,         \* history: the last validated call, its argument and whether it threw
  trip,         \* getNextExecutionTime: schedule, reference time, zone and results
  polls,        \* the processJobs() calls of worker 1 that overlap: position, ids read
  stop,         \* Worker.stop of each worker: position, the promises awaited, Date.now()
  wl,           \* DistributedLock.withLock of each client: position, token, attempts, outcome
  removed,      \* history: the ids of the removeJob calls, in their order
  calc          \* calculateWorkerDistribution: a call's arguments, locals and position

redisVars == <<job, waiting, active, completed, failed, delayed, depWait, dependents, jobLock>>
workerVars == <<running, concurrency, processing, wpc, wReady, wBatch, tpc>>
histVars == <<handed, everCompleted, mustWait, adds, dispatched, submitted, notBefore>>
prioVars == <<prio, ppc, pRead, reorder>>
lockVars == <<lockVal, lockTtl, nextToken, cpc, ctoken, released>>
leaderVars == <<leaderKey, leaderTtl, isLeader, currentLeaderId, lpc>>
rateVars == <<limitSet, admitted, radd>>
dlVars == <<deadLetter, dlRecord, dlEnabled, dlRemove, dlPc, dlResult>>
pauseVars == <<paused, pauseCalled>>
obsVars == <<observing, thrown, jobStalled>>
failVars == <<crashed, crashedAt, watched, became>>
coordVars == <<cycled, target, coordWorkers, scaleConcurrency, adjusted>>
scaleVars == <<spc, instances, instanceInfo, ran, failVars, coordVars>>
valVars == <<progress, call, trip, polls, stop, wl, removed, calc>>
extVars == <<dlVars, pauseVars, obsVars, scaleVars, valVars>>
nonQueueVars == <<prioVars, lockVars, leaderVars, rateVars, extVars>>
vars == <<now, redisVars, workerVars, histVars, nonQueueVars>>

\* a job hash that does not exist (HGETALL returns nothing).  finishedOn is kept
\* as "set or not": the code reads it only for its truth value.  The fields id,
\* name, data, timestamp, progress, returnvalue, failedReason and stacktrace are
\* read by none of the operations below and are left out.
NoJob ==
  [exists |-> FALSE, attempts |-> 0, boType |-> "none", boDelay |-> 0, delay |-> 0,
   lifo |-> FALSE, attemptsMade |-> 0, processedOn |-> NoTime, finishedOn |-> FALSE,
   dependencies |-> {}, priority |-> 0, deadLetter |-> FALSE, dlMaxRetries |-> 0,
   removeOnComplete |-> FALSE, removeOnFail |-> FALSE,
   cron |-> FALSE, limit |-> 0, endDate |-> NoTime]

\* JobOptions given to add()
JobOpts(attemptsSet, boTypes, boDelays, delays, lifos, depSets) ==
  [attempts : attemptsSet, boType : boTypes, boDelay : boDelays, delay : delays,
   lifo : lifos, dependsOn : depSets, deadLetter : {FALSE}, dlMaxRetries : {0},
   removeOnComplete : {FALSE}, removeOnFail : {FALSE},
   cron : {FALSE}, limit : {0}, endDate : {NoTime}]

\* the options of `opts` with opts.deadLetter set: true when m = 0, else
\* {maxRetries: m}
WithDeadLetter(opts, ms) ==
  {[o EXCEPT !.deadLetter = TRUE, !.dlMaxRetries = m] : o \in opts, m \in ms}

\* the options of `opts` with every value of removeOnComplete and removeOnFail
WithRemove(opts) ==
  {[o EXCEPT !.removeOnComplete = c, !.removeOnFail = f] : o \in opts, c \in BOOLEAN, f \in BOOLEAN}

\* the ids of the delayed set
DelayedIds == {j \in JobIds : delayed[j] # NoTime}

RECURSIVE ByScore(_)
\* the members of a set of delayed ids ordered by score, then by id
ByScore(S) ==
  IF S = {} THEN <<>>
  ELSE LET m == CHOOSE x \in S : \A y \in S :
                  \/ delayed[x] < delayed[y]
                  \/ delayed[x] = delayed[y] /\ x <= y
       IN <<m>> \o ByScore(S \ {m})

\* ZRANGEBYSCORE delayed 0 max
ZRangeByScore(max) == ByScore({j \in DelayedIds : delayed[j] <= max})

\* every order in which SMEMBERS may return the members of a set
Orders(S) ==
  {s \in [1..Cardinality(S) -> S] : \A a, b \in 1..Cardinality(S) : s[a] = s[b] => a = b}

\* ------------------------------------------------------------------- Init
InitRedis ==
  /\ job = [j \in JobIds |-> NoJob]
  /\ waiting = <<>>
  /\ active = <<>>
  /\ completed = <<>>
  /\ failed = <<>>
  /\ delayed = [j \in JobIds |-> NoTime]
  /\ depWait = {}
  /\ dependents = [j \in JobIds |-> {}]
  /\ jobLock = [j \in JobIds |-> NoWorker]

InitHist ==
  /\ handed = [j \in JobIds |-> 0]
  /\ everCompleted = [j \in JobIds |-> FALSE]
  /\ mustWait = [j \in JobIds |-> {}]
  /\ adds = 0
  /\ dispatched = <<>>
  /\ submitted = <<>>
  /\ notBefore = [j \in JobIds |-> 0]

\* workers `ws` were started by Queue.process(c, handler), the others were not
InitWorkers(ws, c) ==
  /\ running = [w \in Workers |-> w \in ws]
  /\ concurrency = [w \in Workers |-> c]
  /\ processing = [w \in Workers |-> {}]
  /\ wpc = [w \in Workers |-> "idle"]
  /\ wReady = [w \in Workers |-> <<>>]
  /\ wBatch = [w \in Workers |-> <<>>]
  /\ tpc = [w \in Workers |-> [j \in JobIds |-> "none"]]

\* -------------------------------------------------------------- Queue.add
\* the hash written by the HMSET of add: fields that add does not write keep
\* the value of an earlier job with the same id
AddedJob(old, o) ==
  [old EXCEPT !.exists = TRUE, !.attempts = o.attempts, !.boType = o.boType,
              !.boDelay = o.boDelay, !.delay = o.delay, !.lifo = o.lifo,
              !.attemptsMade = 0, !.deadLetter = o.deadLetter,
              !.dlMaxRetries = o.dlMaxRetries, !.removeOnComplete = o.removeOnComplete,
              !.removeOnFail = o.removeOnFail, !.cron = o.cron, !.limit = o.limit,
              !.endDate = o.endDate,
              !.dependencies = IF o.dependsOn # {} THEN o.dependsOn ELSE @]

\* the dependencies whose job exists and has no finishedOn
Unfinished(jobs, deps) == {d \in deps : jobs[d].exists /\ ~jobs[d].finishedOn}

\* where add puts a job that waits for no dependency
Placement(j, o) ==
  IF o.delay > 0
    THEN /\ delayed' = [delayed EXCEPT ![j] = now + o.delay]
         /\ UNCHANGED waiting
    ELSE /\ waiting' = IF o.lifo THEN RPush(waiting, j) ELSE LPush(waiting, j)
         /\ UNCHANGED delayed

\* Queue.add on the keys of the queue
AddBody(j, o) ==
  /\ adds < MaxAdds
  /\ j \notin o.dependsOn
  /\ LET jobs == [job EXCEPT ![j] = AddedJob(job[j], o)]
     IN /\ job' = jobs
        /\ dependents' = [d \in JobIds |->
                            IF d \in o.dependsOn THEN dependents[d] \cup {j} ELSE dependents[d]]
        /\ IF Unfinished(jobs, o.dependsOn) # {}
             THEN /\ depWait' = depWait \cup {j}
                  /\ UNCHANGED <<waiting, delayed>>
             ELSE /\ Placement(j, o)
                  /\ UNCHANGED depWait
  /\ adds' = adds + 1
  /\ submitted' = LogFirst(submitted, j)
  /\ notBefore' = [notBefore EXCEPT ![j] = IF o.delay > 0 THEN now + o.delay ELSE 0]
  /\ UNCHANGED dispatched
  /\ handed' = [handed EXCEPT ![j] = 0]
  /\ everCompleted' = [everCompleted EXCEPT ![j] = FALSE]
  /\ mustWait' = [mustWait EXCEPT
                    ![j] = {d \in o.dependsOn : job[d].exists /\ ~InList(completed, d)}]
  /\ UNCHANGED <<now, active, completed, failed, jobLock, workerVars>>

AddQueue(j, o) ==
  /\ AddBody(j, o)
  /\ thrown' = [thrown EXCEPT ![j] = 0]
  /\ UNCHANGED <<prioVars, lockVars, leaderVars, rateVars, dlVars, pauseVars, scaleVars, observing,
                 jobStalled>>

\* Queue.add
Add(j, o) ==
  /\ AddQueue(j, o)
  /\ UNCHANGED valVars

\* ------------------------------------------------------------ Worker loop
\* (the pause check of processJobs left out)
IsPausedNever == FALSE

\* processJobs: EXISTS of the key <queue>:paused
IsPaused == paused.type # "none"

\* Worker.start, called by Queue.process
Start(w) ==
  /\ ~running[w]
  /\ running' = [running EXCEPT ![w] = TRUE]
  /\ UNCHANGED <<now, redisVars, concurrency, processing, wpc, wReady, wBatch, tpc, histVars>>
  /\ UNCHANGED nonQueueVars

\* processTick + processJobs up to the ZRANGEBYSCORE of moveDelayedJobsToWaiting
TickStart(w) ==
  /\ running[w]
  /\ wpc[w] = "idle"
  /\ ~IsPaused
  /\ Cardinality(processing[w]) < concurrency[w]
  /\ wReady' = [wReady EXCEPT ![w] = ZRangeByScore(now)]
  /\ wpc' = [wpc EXCEPT ![w] = "promote"]
  /\ UNCHANGED <<now, redisVars, running, concurrency, processing, wBatch, tpc, histVars>>
  /\ UNCHANGED nonQueueVars

\* one iteration of the loop of moveDelayedJobsToWaiting: MULTI ZREM LPUSH EXEC
PromoteOne(w) ==
  /\ wpc[w] = "promote"
  /\ wReady[w] # <<>>
  /\ LET j == Head(wReady[w])
     IN /\ delayed' = [delayed EXCEPT ![j] = NoTime]
        /\ waiting' = LPush(waiting, j)
  /\ wReady' = [wReady EXCEPT ![w] = Tail(@)]
  /\ UNCHANGED <<now, job, active, completed, failed, depWait, dependents, jobLock,
                 running, concurrency, processing, wpc, wBatch, tpc, histVars>>
  /\ UNCHANGED nonQueueVars

\* processJobs: the slots and the LRANGE of the waiting list
Fetch(w) ==
  /\ wpc[w] = "promote"
  /\ wReady[w] = <<>>
  /\ LET availableSlots == concurrency[w] - Cardinality(processing[w])
         waitingJobs == IF availableSlots <= 0 THEN <<>> ELSE LRange(waiting, availableSlots)
     IN /\ wBatch' = [wBatch EXCEPT ![w] = waitingJobs]
        /\ wpc' = [wpc EXCEPT ![w] = IF waitingJobs = <<>> THEN "idle" ELSE "move"]
  /\ UNCHANGED <<now, redisVars, running, concurrency, processing, wReady, tpc, histVars>>
  /\ UNCHANGED nonQueueVars

\* one iteration of the dispatch loop: moveToActive(jobId); processJob(jobId)
MoveOne(w) ==
  /\ wpc[w] = "move"
  /\ LET j == Head(wBatch[w])
     IN IF j \in processing[w]
          THEN UNCHANGED <<waiting, active, processing, tpc, dispatched>>
          ELSE /\ waiting' = LRemOne(waiting, j)
               /\ dispatched' = LogFirst(dispatched, j)
               /\ active' = LPush(active, j)
               /\ processing' = [processing EXCEPT ![w] = @ \cup {j}]
               /\ tpc' = [tpc EXCEPT ![w][j] = "lock"]
  /\ wBatch' = [wBatch EXCEPT ![w] = Tail(@)]
  /\ wpc' = [wpc EXCEPT ![w] = IF Tail(wBatch[w]) = <<>> THEN "idle" ELSE "move"]
  /\ UNCHANGED <<now, job, completed, failed, delayed, depWait, dependents, jobLock,
                 running, concurrency, wReady, handed, everCompleted, mustWait, adds,
                 submitted, notBefore>>
  /\ UNCHANGED nonQueueVars

\* processJobWithLock: the lock is acquired, the job is loaded, processedOn is
\* stamped and the handler is invoked
AcquireLock(w, j) ==
  /\ tpc[w][j] = "lock"
  /\ jobLock[j] = NoWorker
  /\ IF job[j].exists
       THEN /\ jobLock' = [jobLock EXCEPT ![j] = w]
            /\ job' = [job EXCEPT ![j].processedOn = now]
            /\ tpc' = [tpc EXCEPT ![w][j] = "run"]
            /\ handed' = [handed EXCEPT ![j] = @ + 1]
            /\ UNCHANGED processing
       ELSE /\ processing' = [processing EXCEPT ![w] = @ \ {j}]
            /\ tpc' = [tpc EXCEPT ![w][j] = "none"]
            /\ UNCHANGED <<jobLock, job, handed>>
  /\ UNCHANGED <<now, waiting, active, completed, failed, delayed, depWait, dependents,
                 running, concurrency, wpc, wReady, wBatch, everCompleted, mustWait, adds,
                 dispatched, submitted, notBefore>>
  /\ UNCHANGED nonQueueVars

\* DistributedLock.acquire returns null after its retries: withLock throws
LockFail(w, j) ==
  /\ tpc[w][j] = "lock"
  /\ jobLock[j] # NoWorker
  /\ tpc' = [tpc EXCEPT ![w][j] = "fail"]
  /\ UNCHANGED <<now, redisVars, running, concurrency, processing, wpc, wReady, wBatch,
                 histVars>>
  /\ UNCHANGED nonQueueVars

\* the handler returns its result
HandlerReturn(w, j) ==
  /\ tpc[w][j] = "run"
  /\ tpc' = [tpc EXCEPT ![w][j] = "complete"]
  /\ UNCHANGED <<now, redisVars, running, concurrency, processing, wpc, wReady, wBatch,
                 histVars>>
  /\ UNCHANGED nonQueueVars

\* DistributedLock.release: the key is deleted when it holds the caller's token
Release(locks, j, w) == IF locks[j] = w THEN [locks EXCEPT ![j] = NoWorker] ELSE locks

\* the handler throws: withLock releases the lock, the worker's catch follows
HandlerThrow(w, j) ==
  /\ tpc[w][j] = "run"
  /\ jobLock' = Release(jobLock, j, w)
  /\ tpc' = [tpc EXCEPT ![w][j] = "fail"]
  /\ thrown' = IF observing THEN [thrown EXCEPT ![j] = @ + 1] ELSE thrown
  /\ UNCHANGED <<now, job, waiting, active, completed, failed, delayed, depWait,
                 dependents, running, concurrency, processing, wpc, wReady, wBatch,
                 histVars>>
  /\ UNCHANGED <<prioVars, lockVars, leaderVars, rateVars, dlVars, pauseVars, scaleVars, valVars, observing,
                 jobStalled>>

\* Job.processDependents: whether every dependency of `d` that exists has finishedOn
AllDependenciesCompleted(jobs, d) ==
  \A dep \in jobs[d].dependencies : jobs[dep].exists => jobs[dep].finishedOn

RECURSIVE PushDependents(_, _, _)
\* the waiting list after the loop of processDependents over `order`
PushDependents(jobs, order, list) ==
  IF order = <<>> THEN list
  ELSE LET d == Head(order)
       IN PushDependents(jobs, Tail(order),
            IF jobs[d].exists /\ jobs[d].dependencies # {} /\ AllDependenciesCompleted(jobs, d)
              THEN LPush(list, d) ELSE list)

\* the ids that processDependents removes from dependency-wait
Released(jobs, j) ==
  {d \in dependents[j] :
     jobs[d].exists /\ jobs[d].dependencies # {} /\ AllDependenciesCompleted(jobs, d)}

\* Job.moveToCompleted followed by the release of the lock and processing.delete
Complete(w, j) ==
  /\ tpc[w][j] = "complete"
  /\ LET jobs == [job EXCEPT ![j].exists = TRUE, ![j].finishedOn = TRUE]
     IN /\ job' = jobs
        /\ active' = LRemAll(active, j)
        /\ completed' = LPush(completed, j)
        /\ depWait' = depWait \ Released(jobs, j)
        /\ \E order \in Orders(dependents[j]) :
             waiting' = PushDependents(jobs, order, waiting)
  /\ jobLock' = Release(jobLock, j, w)
  /\ processing' = [processing EXCEPT ![w] = @ \ {j}]
  /\ tpc' = [tpc EXCEPT ![w][j] = "none"]
  /\ everCompleted' = [everCompleted EXCEPT ![j] = TRUE]
  /\ mustWait' = [d \in JobIds |-> mustWait[d] \ {j}]
  /\ UNCHANGED <<now, failed, delayed, dependents, running, concurrency, wpc, wReady,
                 wBatch, handed, adds, dispatched, submitted, notBefore>>
  /\ UNCHANGED nonQueueVars

\* the hash after Job.moveToFailed
FailedJob(rec) ==
  [rec EXCEPT !.exists = TRUE, !.finishedOn = TRUE, !.attemptsMade = @ + 1]

\* the hash after Job.retry
RetriedJob(rec) == [rec EXCEPT !.finishedOn = FALSE, !.processedOn = NoTime]

\* (a retry delay that ignores the backoff type)
RetryDelayFlat(rec) == rec.boDelay

\* the retry delay of worker.processJob
RetryDelay(rec) ==
  IF rec.boType = "fixed" THEN rec.boDelay
  ELSE IF rec.boType = "exponential" THEN rec.boDelay * Pow2(rec.attemptsMade - 1)
  ELSE 0

\* job.opts.attempts || 1
MaxAttemptsOf(rec) == IF rec.attempts = 0 THEN 1 ELSE rec.attempts

\* (opts.deadLetter.maxRetries or the queue default) || 3
DefaultDeadLetterMaxRetries == 3
DeadLetterMaxRetries(rec) ==
  IF rec.dlMaxRetries = 0 THEN DefaultDeadLetterMaxRetries ELSE rec.dlMaxRetries

\* the dead-letter test of worker.processJob on the job after moveToFailed;
\* opts.deadLetter is either not given (FALSE) or true / {maxRetries}
UseDeadLetter(rec) ==
  (rec.deadLetter \/ dlEnabled) /\ rec.attemptsMade >= DeadLetterMaxRetries(rec)

\* the failed list after DeadLetterQueue.moveToDeadLetter
DeadLetterFailed(list, j) == IF dlRemove THEN LRemAll(list, j) ELSE list

\* the catch block of worker.processJob
Fail(w, j) ==
  /\ tpc[w][j] = "fail"
  /\ IF ~job[j].exists
       THEN UNCHANGED <<job, active, failed, delayed, waiting, deadLetter, dlRecord>>
       ELSE LET rec == FailedJob(job[j])
            IN /\ active' = LRemAll(active, j)
               /\ IF UseDeadLetter(rec)
                    THEN /\ job' = [job EXCEPT ![j] = rec]
                         /\ deadLetter' = LPush(deadLetter, j)
                         /\ dlRecord' = [dlRecord EXCEPT ![j] = [exists |-> TRUE,
                                                                 attemptsMade |-> rec.attemptsMade]]
                         /\ failed' = DeadLetterFailed(LPush(failed, j), j)
                         /\ UNCHANGED <<delayed, waiting>>
                    ELSE /\ UNCHANGED <<deadLetter, dlRecord>>
                         /\ IF rec.attemptsMade < MaxAttemptsOf(rec)
                              THEN IF RetryDelay(rec) > 0
                                     THEN /\ job' = [job EXCEPT ![j] = rec]
                                          /\ failed' = LPush(failed, j)
                                          /\ delayed' =
                                               [delayed EXCEPT ![j] = now + RetryDelay(rec)]
                                          /\ UNCHANGED waiting
                                     ELSE /\ job' = [job EXCEPT ![j] = RetriedJob(rec)]
                                          /\ failed' = LRemAll(LPush(failed, j), j)
                                          /\ waiting' = LPush(waiting, j)
                                          /\ UNCHANGED delayed
                              ELSE /\ job' = [job EXCEPT ![j] = rec]
                                   /\ failed' = LPush(failed, j)
                                   /\ UNCHANGED <<delayed, waiting>>
  /\ processing' = [processing EXCEPT ![w] = @ \ {j}]
  /\ tpc' = [tpc EXCEPT ![w][j] = "none"]
  /\ UNCHANGED <<now, completed, depWait, dependents, jobLock, running, concurrency,
                 wpc, wReady, wBatch, histVars>>
  /\ UNCHANGED <<prioVars, lockVars, leaderVars, rateVars, pauseVars, scaleVars, valVars, obsVars, dlEnabled, dlRemove,
                 dlPc, dlResult>>

\* ------------------------------------------------------- StalledJobChecker
StalledThreshold == 1

\* the test of checkStalledJobs on one job of the active list
IsStalled(rec) == rec.processedOn = NoTime \/ now - rec.processedOn >= StalledThreshold

\* (a recovery that leaves attemptsMade as it was)
StalledJobSame(rec) == rec

\* the hash after the HSET of attemptsMade by checkStalledJobs
StalledJob(rec) == [rec EXCEPT !.attemptsMade = @ + 1]

\* one iteration of the loop of checkStalledJobs
StalledCheck(j) ==
  /\ InList(active, j)
  /\ job[j].exists
  /\ IsStalled(job[j])
  /\ active' = LRemAll(active, j)
  /\ IF job[j].attemptsMade < MaxStalledRetries
       THEN /\ waiting' = LPush(waiting, j)
            /\ job' = [job EXCEPT ![j] = StalledJob(@)]
            /\ jobStalled' = IF observing THEN [jobStalled EXCEPT ![j] = @ + 1] ELSE jobStalled
            /\ UNCHANGED failed
       ELSE /\ failed' = LPush(failed, j)
            /\ job' = [job EXCEPT ![j] = FailedJob(@)]
            /\ UNCHANGED <<waiting, jobStalled>>
  /\ UNCHANGED <<now, completed, delayed, depWait, dependents, jobLock, workerVars,
                 histVars>>
  /\ UNCHANGED <<prioVars, lockVars, leaderVars, rateVars, dlVars, pauseVars, scaleVars, valVars, observing, thrown>>

\* the clock advances, up to `max`
Advance(max) ==
  /\ now < max
  /\ now' = now + 1
  /\ UNCHANGED <<redisVars, workerVars, histVars>>
  /\ UNCHANGED nonQueueVars

Tick == Advance(MaxTime)

\* ------------------------------------------------------------ PriorityQueue
PriorityLevels == 2
Levels == 0..(PriorityLevels - 1)
NoLevel == 0 - 1

\* PriorityQueue.add with options o and opts.priority = p
PrioAddQueue(j, o, p) ==
  /\ adds < MaxAdds
  /\ j \notin o.dependsOn
  /\ p \in Levels
  /\ LET jobs == [job EXCEPT ![j] = [AddedJob(job[j], o) EXCEPT !.priority = p]]
     IN /\ job' = jobs
        /\ dependents' = [d \in JobIds |->
                            IF d \in o.dependsOn THEN dependents[d] \cup {j} ELSE dependents[d]]
        /\ IF Unfinished(jobs, o.dependsOn) # {}
             THEN /\ depWait' = depWait \cup {j}
                  /\ UNCHANGED <<delayed, prio>>
             ELSE /\ IF o.delay > 0
                       THEN /\ delayed' = [delayed EXCEPT ![j] = now + o.delay]
                            /\ UNCHANGED prio
                       ELSE /\ prio' = [prio EXCEPT
                                          ![p] = IF o.lifo THEN RPush(@, j) ELSE LPush(@, j)]
                            /\ UNCHANGED delayed
                  /\ UNCHANGED depWait
  /\ adds' = adds + 1
  /\ submitted' = LogFirst(submitted, j)
  /\ notBefore' = [notBefore EXCEPT ![j] = IF o.delay > 0 THEN now + o.delay ELSE 0]
  /\ handed' = [handed EXCEPT ![j] = 0]
  /\ everCompleted' = [everCompleted EXCEPT ![j] = FALSE]
  /\ mustWait' = [mustWait EXCEPT
                    ![j] = {d \in o.dependsOn : job[d].exists /\ ~InList(completed, d)}]
  /\ UNCHANGED <<now, waiting, active, completed, failed, jobLock, workerVars, dispatched>>
  /\ thrown' = [thrown EXCEPT ![j] = 0]
  /\ UNCHANGED <<ppc, pRead, reorder, lockVars, leaderVars, rateVars, dlVars, pauseVars, scaleVars, observing,
                 jobStalled>>

\* PriorityQueue.add with a priority that passes the validation
PrioAdd(j, o, p) ==
  /\ PrioAddQueue(j, o, p)
  /\ UNCHANGED valVars

\* a pass of moveJobsToWaiting begins at the highest level
PumpStart ==
  /\ ppc = NoLevel
  /\ ppc' = PriorityLevels - 1
  /\ pRead' = <<>>
  /\ UNCHANGED <<now, redisVars, workerVars, histVars, prio, reorder, lockVars, leaderVars,
                 rateVars, extVars>>

\* LLEN and LRANGE 0 -1 of the level of the pass
PumpRead ==
  /\ ppc # NoLevel
  /\ pRead = <<>>
  /\ IF prio[ppc] = <<>>
       THEN /\ ppc' = ppc - 1
            /\ UNCHANGED pRead
       ELSE /\ pRead' = prio[ppc]
            /\ UNCHANGED ppc
  /\ UNCHANGED <<now, redisVars, workerVars, histVars, prio, reorder, lockVars, leaderVars,
                 rateVars, extVars>>

\* MULTI, DEL of the level, LPUSH of the ids read from the last to the first, EXEC
PumpMove ==
  /\ ppc # NoLevel
  /\ pRead # <<>>
  /\ prio' = [prio EXCEPT ![ppc] = <<>>]
  /\ waiting' = pRead \o waiting
  /\ pRead' = <<>>
  /\ ppc' = ppc - 1
  /\ UNCHANGED <<now, job, active, completed, failed, delayed, depWait, dependents, jobLock,
                 workerVars, histVars, reorder, lockVars, leaderVars, rateVars, extVars>>

\* the runs of reorderJobs that read an id
MaxReorders == 1

\* reorderJobs has read nothing
NoReorder == [pc |-> "idle", ids |-> <<>>, runs |-> 0]

RECURSIVE AllLevels(_)
\* the ids of the levels 0 .. (n - 1), in the order reorderJobs reads them
AllLevels(n) == IF n = 0 THEN <<>> ELSE AllLevels(n - 1) \o prio[n - 1]

\* reorderJobs: LRANGE 0 -1 of every level from 0 up; with no id it returns
ReorderRead ==
  /\ reorder.pc = "idle"
  /\ reorder.runs < MaxReorders
  /\ AllLevels(PriorityLevels) # <<>>
  /\ reorder' = [pc |-> "write", ids |-> AllLevels(PriorityLevels), runs |-> reorder.runs + 1]
  /\ UNCHANGED <<now, redisVars, workerVars, histVars, prio, ppc, pRead, lockVars, leaderVars,
                 rateVars, extVars>>

RECURSIVE Reordered(_, _)
\* the levels after the RPUSH of every id read whose job exists, each to
\* the level of the priority its job has now
Reordered(levels, ids) ==
  IF ids = <<>> THEN levels
  ELSE LET j == Head(ids)
       IN Reordered(IF job[j].exists THEN [levels EXCEPT ![job[j].priority] = RPush(@, j)]
                    ELSE levels, Tail(ids))

\* reorderJobs: MULTI, DEL of every level, RPUSH of the ids read, EXEC
ReorderWrite ==
  /\ reorder.pc = "write"
  /\ prio' = Reordered([l \in Levels |-> <<>>], reorder.ids)
  /\ reorder' = [reorder EXCEPT !.pc = "idle", !.ids = <<>>]
  /\ UNCHANGED <<now, redisVars, workerVars, histVars, ppc, pRead, lockVars, leaderVars,
                 rateVars, extVars>>

\* ---------------------------------------------------------- DistributedLock
MaxClients == 2
MaxTokens == 3
LockDuration == 2
Clients == 1..MaxClients
\* GET of a lock key that does not exist
NoToken == 0

InitLock ==
  /\ lockVal = NoToken
  /\ lockTtl = 0
  /\ nextToken = 1
  /\ cpc = [c \in Clients |-> "idle"]
  /\ ctoken = [c \in Clients |-> NoToken]
  /\ released = [c \in Clients |-> "none"]

lockFrame == <<now, redisVars, workerVars, histVars, prioVars, leaderVars, rateVars, extVars>>

\* acquire without retries: token = generateId(), SET key token NX PX duration
Acquire(c) ==
  /\ cpc[c] = "idle"
  /\ nextToken <= MaxTokens
  /\ nextToken' = nextToken + 1
  /\ IF lockVal = NoToken
       THEN /\ lockVal' = nextToken
            /\ lockTtl' = LockDuration
            /\ ctoken' = [ctoken EXCEPT ![c] = nextToken]
            /\ cpc' = [cpc EXCEPT ![c] = "held"]
       ELSE UNCHANGED <<lockVal, lockTtl, ctoken, cpc>>
  /\ UNCHANGED released
  /\ UNCHANGED lockFrame

\* release: GET key and the comparison with the caller's token
ReleaseGet(c) ==
  /\ cpc[c] = "held"
  /\ IF lockVal = ctoken[c]
       THEN /\ cpc' = [cpc EXCEPT ![c] = "releasing"]
            /\ UNCHANGED released
       ELSE /\ cpc' = [cpc EXCEPT ![c] = "idle"]
            /\ released' = [released EXCEPT ![c] = "false"]
  /\ UNCHANGED <<lockVal, lockTtl, nextToken, ctoken>>
  /\ UNCHANGED lockFrame

\* release: DEL key, return true
ReleaseDel(c) ==
  /\ cpc[c] = "releasing"
  /\ lockVal' = NoToken
  /\ lockTtl' = 0
  /\ cpc' = [cpc EXCEPT ![c] = "idle"]
  /\ released' = [released EXCEPT ![c] = "true"]
  /\ UNCHANGED <<nextToken, ctoken>>
  /\ UNCHANGED lockFrame

\* extend: GET key and the comparison with the caller's token
ExtendGet(c) ==
  /\ cpc[c] = "held"
  /\ lockVal = ctoken[c]
  /\ cpc' = [cpc EXCEPT ![c] = "extending"]
  /\ UNCHANGED <<lockVal, lockTtl, nextToken, ctoken, released>>
  /\ UNCHANGED lockFrame

\* extend: PEXPIRE key duration
ExtendExpire(c) ==
  /\ cpc[c] = "extending"
  /\ lockTtl' = IF lockVal = NoToken THEN 0 ELSE LockDuration
  /\ cpc' = [cpc EXCEPT ![c] = "held"]
  /\ UNCHANGED <<lockVal, nextToken, ctoken, released>>
  /\ UNCHANGED lockFrame

\* one unit of the key's life passes; Redis deletes the key when none is left
LockTimePasses ==
  /\ lockVal # NoToken
  /\ lockTtl' = lockTtl - 1
  /\ lockVal' = IF lockTtl = 1 THEN NoToken ELSE lockVal
  /\ UNCHANGED <<nextToken, cpc, ctoken, released>>
  /\ UNCHANGED lockFrame

\* ------------------------------------------------- DistributedLock.withLock
\* options.retries of the withLock calls
LockRetries == 1

\* withLock was not called
NoWithLock == [pc |-> "idle", token |-> NoToken, attempt |-> 0, acquired |-> FALSE,
               fn |-> "none", outcome |-> "none", ext |-> "off"]

withLockFrame == <<now, redisVars, workerVars, histVars, prioVars, leaderVars, rateVars,
                   dlVars, pauseVars, obsVars, scaleVars, progress, call, trip, polls, stop, removed, calc,
                   cpc, ctoken, released>>

\* (a release that never finds its token under the key)
OwnsLockNever(c) == FALSE

\* release and extend: currentToken === token
OwnsLock(c) == lockVal = wl[c].token

\* withLock(resource, fn, {retries}) up to the first SET of acquire:
\* token = generateId()
WithLock(c) ==
  /\ wl[c].pc \in {"idle", "done"}
  /\ wl[c].ext = "off"
  /\ nextToken <= MaxTokens
  /\ nextToken' = nextToken + 1
  /\ wl' = [wl EXCEPT ![c] = [NoWithLock EXCEPT !.pc = "acquire", !.token = nextToken]]
  /\ UNCHANGED <<lockVal, lockTtl, withLockFrame>>

\* one attempt of acquire: SET key token NX PX duration.  On OK the
\* auto-extension timer is set and fn is called; a failed attempt is followed
\* by another after retryDelay while attempt < retries; after the last one
\* acquire returns null and withLock throws
AcquireAttempt(c) ==
  /\ wl[c].pc = "acquire"
  /\ IF lockVal = NoToken
       THEN /\ lockVal' = wl[c].token
            /\ lockTtl' = LockDuration
            /\ wl' = [wl EXCEPT ![c].pc = "fn", ![c].acquired = TRUE, ![c].ext = "armed"]
       ELSE /\ UNCHANGED <<lockVal, lockTtl>>
            /\ wl' = IF wl[c].attempt < LockRetries
                       THEN [wl EXCEPT ![c].attempt = @ + 1]
                       ELSE [wl EXCEPT ![c].pc = "done", ![c].outcome = "error"]
  /\ UNCHANGED <<nextToken, withLockFrame>>

\* fn returns or throws; the finally block calls release
RunFn(c, result) ==
  /\ wl[c].pc = "fn"
  /\ wl' = [wl EXCEPT ![c].pc = "release", ![c].fn = result]
  /\ UNCHANGED <<lockVal, lockTtl, nextToken, withLockFrame>>

\* release in the finally block: GET key and the comparison; without the
\* token under the key release returns false and withLock returns or rethrows
WithLockReleaseGet(c) ==
  /\ wl[c].pc = "release"
  /\ wl' = IF OwnsLock(c) THEN [wl EXCEPT ![c].pc = "del"]
           ELSE [wl EXCEPT ![c].pc = "done", ![c].outcome = wl[c].fn]
  /\ UNCHANGED <<lockVal, lockTtl, nextToken, withLockFrame>>

\* release in the finally block: DEL key; withLock returns or rethrows
WithLockReleaseDel(c) ==
  /\ wl[c].pc = "del"
  /\ lockVal' = NoToken
  /\ lockTtl' = 0
  /\ wl' = [wl EXCEPT ![c].pc = "done", ![c].outcome = wl[c].fn]
  /\ UNCHANGED <<nextToken, withLockFrame>>

\* the auto-extension timer fires: extend up to its comparison; the timer is
\* cleared when extend returns false
AutoExtendGet(c) ==
  /\ wl[c].ext = "armed"
  /\ wl' = [wl EXCEPT ![c].ext = IF OwnsLock(c) THEN "expire" ELSE "off"]
  /\ UNCHANGED <<lockVal, lockTtl, nextToken, withLockFrame>>

\* extend: PEXPIRE key duration, which returns 0 for a key that is gone
AutoExtendExpire(c) ==
  /\ wl[c].ext = "expire"
  /\ lockTtl' = IF lockVal = NoToken THEN 0 ELSE LockDuration
  /\ wl' = [wl EXCEPT ![c].ext = IF lockVal = NoToken THEN "off" ELSE "armed"]
  /\ UNCHANGED <<lockVal, nextToken, withLockFrame>>

\* the life of the key passes while withLock calls are under way
WithLockTimePasses ==
  /\ lockVal # NoToken
  /\ lockTtl' = lockTtl - 1
  /\ lockVal' = IF lockTtl = 1 THEN NoToken ELSE lockVal
  /\ UNCHANGED <<nextToken, wl, withLockFrame>>

\* ----------------------------------------------------------- LeaderElection
MaxInstances == 2
MaxLeaderTime == 2
\* leaderTimeout in units of the clock
LeaderTimeout == 1
Instances == 1..MaxInstances
\* getCurrentLeader returns null
NoLeader == 0

\* start() has set the watchdog up and is about to run electLeader
InitLeader ==
  /\ leaderKey = <<>>
  /\ leaderTtl = 0
  /\ isLeader = [i \in Instances |-> FALSE]
  /\ currentLeaderId = [i \in Instances |-> NoLeader]
  /\ lpc = [i \in Instances |-> "elect"]

leaderFrame == <<redisVars, workerVars, histVars, prioVars, lockVars, rateVars, extVars>>

\* getCurrentLeader: GET leader:current, split, timeout test
GetCurrentLeader ==
  IF leaderKey = <<>> THEN NoLeader
  ELSE IF now - leaderKey[2] > LeaderTimeout THEN NoLeader
  ELSE leaderKey[1]

\* a watchdog whose checkLeadership never starts an election
CheckLeadershipNever(i) ==
  /\ lpc[i] \in {"idle", "recheck"}
  /\ lpc' = [lpc EXCEPT ![i] = "idle"]
  /\ UNCHANGED <<now, leaderKey, leaderTtl, isLeader, currentLeaderId>>

\* checkLeadership, run by the watchdog timer or by electLeader after a lost SET NX
CheckLeadershipStep(i) ==
  /\ lpc[i] \in {"idle", "recheck"}
  /\ LET currentLeader == GetCurrentLeader
     IN /\ isLeader' = [isLeader EXCEPT ![i] = @ /\ currentLeader = i]
        /\ IF currentLeader = NoLeader
             THEN /\ lpc' = [lpc EXCEPT ![i] = "elect"]
                  /\ UNCHANGED currentLeaderId
             ELSE /\ lpc' = [lpc EXCEPT ![i] = "idle"]
                  /\ currentLeaderId' = [currentLeaderId EXCEPT ![i] = currentLeader]
  /\ UNCHANGED <<now, leaderKey, leaderTtl>>

CheckLeadership(i) ==
  /\ CheckLeadershipStep(i)
  /\ UNCHANGED leaderFrame

\* electLeader up to the result of its getCurrentLeader
ElectGetStep(i) ==
  /\ lpc[i] = "elect"
  /\ LET currentLeader == GetCurrentLeader
     IN IF currentLeader # NoLeader
          THEN /\ lpc' = [lpc EXCEPT ![i] = "idle"]
               /\ currentLeaderId' =
                    [currentLeaderId EXCEPT ![i] = IF currentLeader # i THEN currentLeader ELSE
                                                   IF ~isLeader[i] THEN i ELSE @]
               /\ isLeader' = [isLeader EXCEPT ![i] = @ \/ currentLeader = i]
          ELSE /\ lpc' = [lpc EXCEPT ![i] = "setnx"]
               /\ UNCHANGED <<currentLeaderId, isLeader>>
  /\ UNCHANGED <<now, leaderKey, leaderTtl>>

ElectGet(i) ==
  /\ ElectGetStep(i)
  /\ UNCHANGED leaderFrame

\* electLeader: SET leader:current info NX PX leaderTimeout, then becomeLeader or
\* checkLeadership
ElectSetStep(i) ==
  /\ lpc[i] = "setnx"
  /\ IF leaderKey = <<>>
       THEN /\ leaderKey' = <<i, now>>
            /\ leaderTtl' = LeaderTimeout
            /\ isLeader' = [isLeader EXCEPT ![i] = TRUE]
            /\ currentLeaderId' = [currentLeaderId EXCEPT ![i] = IF isLeader[i] THEN @ ELSE i]
            /\ lpc' = [lpc EXCEPT ![i] = "idle"]
       ELSE /\ lpc' = [lpc EXCEPT ![i] = "recheck"]
            /\ UNCHANGED <<leaderKey, leaderTtl, isLeader, currentLeaderId>>
  /\ UNCHANGED now

ElectSet(i) ==
  /\ ElectSetStep(i)
  /\ UNCHANGED leaderFrame

\* the heartbeat timer of a leader: SET leader:current info PX leaderTimeout
Heartbeat(i) ==
  /\ isLeader[i]
  /\ leaderKey' = <<i, now>>
  /\ leaderTtl' = LeaderTimeout
  /\ UNCHANGED <<now, isLeader, currentLeaderId, lpc>>
  /\ UNCHANGED leaderFrame

\* the clock advances; Redis deletes the leader key when its life is over
LeaderClock ==
  /\ now < MaxLeaderTime
  /\ now' = now + 1
  /\ leaderTtl' = IF leaderTtl > 0 THEN leaderTtl - 1 ELSE 0
  /\ leaderKey' = IF leaderTtl <= 1 THEN <<>> ELSE leaderKey
  /\ UNCHANGED <<isLeader, currentLeaderId, lpc>>

LeaderTick ==
  /\ LeaderClock
  /\ UNCHANGED leaderFrame

\* -------------------------------------------------------------- RateLimiter
\* options.max and options.duration of the limiter
RateMax == 2
RateDuration == 1
MaxChecks == 4
MaxRateTime == 2
\* the values math.random() may return to one run of the script
MaxRand == 2
RandValues == 1..MaxRand

\* no add is under way on the queue with the limiter
NoRateAdd == [pc |-> "idle", id |-> 0, asked |-> 0, delay |-> 0, limited |-> FALSE, resetIn |-> 0]

InitRate ==
  /\ limitSet = {}
  /\ admitted = <<>>
  /\ radd = NoRateAdd

\* the dead-letter store of a queue is empty; defaultDeadLetterOptions are
\* {enabled: en, removeFromOriginalQueue: rm}
NoRecord == [exists |-> FALSE, attemptsMade |-> 0]
InitDeadLetter(en, rm) ==
  /\ deadLetter = <<>>
  /\ dlRecord = [j \in JobIds |-> NoRecord]
  /\ dlEnabled = en
  /\ dlRemove = rm
  /\ dlPc = [j \in JobIds |-> "idle"]
  /\ dlResult = [j \in JobIds |-> "none"]

\* the key <queue>:paused does not exist
NotPaused == [type |-> "none", ids |-> <<>>]
InitPause ==
  /\ paused = NotPaused
  /\ pauseCalled = FALSE

\* nothing was thrown or emitted yet
InitObs(obs) ==
  /\ observing = obs
  /\ thrown = [j \in JobIds |-> 0]
  /\ jobStalled = [j \in JobIds |-> 0]

\* no instance is registered and none has started yet
NoInfo == [setAt |-> NoTime, lastHeartbeat |-> NoTime, maxWorkers |-> 0, workersAssigned |-> 0]
\* the adjustment timer has not called adjustConcurrency
NoAdjust == [calls |-> 0, threw |-> FALSE]
InitScale ==
  /\ spc = [i \in Instances |-> "election"]
  /\ instances = {}
  /\ instanceInfo = [i \in Instances |-> NoInfo]
  /\ ran = {}
  /\ crashed = {}
  /\ crashedAt = NoTime
  /\ watched = {}
  /\ became = {}
  /\ cycled = {}
  /\ target = 0
  /\ coordWorkers = [i \in Instances |-> 0]
  /\ scaleConcurrency = [i \in Instances |-> 0]
  /\ adjusted = [i \in Instances |-> NoAdjust]

\* the processJobs() calls of one worker that may be in flight at a time
MaxPolls == 2
Polls == 1..MaxPolls
IdlePoll == [pc |-> "idle", batch |-> <<>>]

\* no validated call was made and no next execution time was asked for
NoCall == [n |-> 0, op |-> "none", num |-> 0, expr |-> <<>>, threw |-> FALSE]
NoTrip == [expr |-> <<>>, ref |-> 0, shift |-> 0, t |-> NoTime, t2 |-> NoTime, pc |-> "none"]
\* stop() was not called
NoStop == [pc |-> "none", promises |-> {}, at |-> NoTime]
\* calculateWorkerDistribution has not been called
NoCalc ==
  [pc |-> "idle", maxWorkers |-> [x \in Instances |-> 0], order |-> <<>>, totalWorkers |-> 0,
   totalMaxWorkers |-> 0, distribution |-> [x \in Instances |-> 0], remainingWorkers |-> 0,
   instancesByRoom |-> <<>>, i |-> 0]
InitVal ==
  /\ progress = [j \in JobIds |-> 0]
  /\ call = NoCall
  /\ trip = NoTrip
  /\ polls = [p \in Polls |-> IdlePoll]
  /\ stop = [w \in Workers |-> NoStop]
  /\ wl = [c \in Clients |-> NoWithLock]
  /\ removed = <<>>
  /\ calc = NoCalc

\* the state of everything a plain queue does not use
InitExt ==
  /\ InitDeadLetter(FALSE, TRUE)
  /\ InitPause
  /\ InitObs(FALSE)
  /\ InitScale
  /\ InitVal

rateFrame == <<redisVars, workerVars, histVars, prioVars, lockVars, leaderVars, extVars>>

\* ZREMRANGEBYSCORE key 0 (now - duration): the members that stay.  A member is
\* <<score, random>>, the string now .. ":" .. math.random() with its score
Trimmed(set, t) == {m \in set : m[1] > t - RateDuration}

\* ZADD key score member: a member that is already in the set is not added again
ZAdd(set, t, r) == set \cup {<<t, r>>}

\* one run of the rateLimit script for one identifier with timestamp `now`;
\* admitted logs the timestamps of the runs that returned limited = 0
Check(r) ==
  /\ Len(admitted) < MaxChecks
  /\ LET tokens == Trimmed(limitSet, now)
         limited == Cardinality(tokens) >= RateMax
     IN IF limited
          THEN /\ limitSet' = tokens
               /\ UNCHANGED admitted
          ELSE /\ limitSet' = ZAdd(tokens, now, r)
               /\ admitted' = Append(admitted, now)
  /\ UNCHANGED <<now, radd>>
  /\ UNCHANGED rateFrame

\* the clock advances
RateTick ==
  /\ now < MaxRateTime
  /\ now' = now + 1
  /\ UNCHANGED <<limitSet, admitted, radd>>
  /\ UNCHANGED rateFrame

\* the delays asked for by the callers of add on the queue with the limiter
MaxRateDelay == 2

Max2(a, b) == IF a > b THEN a ELSE b

\* the rateLimit script, timeToReset: 0 for an empty window, else the time
\* until the oldest token leaves it
TimeToReset(tokens, t) ==
  IF tokens = {} THEN 0
  ELSE LET oldestToken == CHOOSE m \in tokens : \A n \in tokens : m[1] <= n[1]
       IN Max2(0, (oldestToken[1] + RateDuration) - t)

\* a call add(data, {jobId: j, delay}) on a queue with a limiter begins
RateAddStart(j, delay) ==
  /\ radd.pc = "idle"
  /\ ~job[j].exists
  /\ radd' = [NoRateAdd EXCEPT !.pc = "check", !.id = j, !.asked = delay, !.delay = delay]
  /\ UNCHANGED <<now, limitSet, admitted>>
  /\ UNCHANGED rateFrame

\* add: limiter.check runs the script; when it reports limited, add calls
\* itself with opts.delay = resetIn, which begins with the next check
RateAddCheck(r) ==
  /\ radd.pc = "check"
  /\ Len(admitted) < MaxChecks
  /\ LET tokens == Trimmed(limitSet, now)
         limited == Cardinality(tokens) >= RateMax
     IN IF limited
          THEN /\ limitSet' = tokens
               /\ UNCHANGED admitted
               /\ radd' = [radd EXCEPT !.limited = TRUE, !.resetIn = TimeToReset(tokens, now),
                                       !.delay = TimeToReset(tokens, now)]
          ELSE /\ limitSet' = ZAdd(tokens, now, r)
               /\ admitted' = Append(admitted, now)
               /\ radd' = [radd EXCEPT !.pc = "store"]
  /\ UNCHANGED now
  /\ UNCHANGED rateFrame

\* add after a check that was not limited: the job is stored with the
\* options of this call
RateAddStore(o) ==
  /\ radd.pc = "store"
  /\ AddBody(radd.id, [o EXCEPT !.delay = radd.delay])
  /\ thrown' = [thrown EXCEPT ![radd.id] = 0]
  /\ radd' = [radd EXCEPT !.pc = "idle"]
  /\ UNCHANGED <<limitSet, admitted>>
  /\ UNCHANGED <<prioVars, lockVars, leaderVars, dlVars, pauseVars, scaleVars, valVars,
                 observing, jobStalled>>

\* ---------------------------------------------------------- DeadLetterQueue
\* config.defaultJobOptions.attempts
DefaultAttempts == 3

\* (options that republish the job with a delay)
RepublishOptsLater(resetRetries) ==
  [attempts |-> IF resetRetries THEN 0 ELSE DefaultAttempts, boType |-> "exponential",
   boDelay |-> 1, delay |-> 1, lifo |-> FALSE, dependsOn |-> {}, deadLetter |-> FALSE,
   dlMaxRetries |-> 0, removeOnComplete |-> FALSE, removeOnFail |-> FALSE,
   cron |-> FALSE, limit |-> 0, endDate |-> NoTime]

\* the options republishJob gives to add, merged with config.defaultJobOptions
\* (one unit of the clock stands for the default backoff delay)
RepublishOpts(resetRetries) ==
  [attempts |-> IF resetRetries THEN 0 ELSE DefaultAttempts, boType |-> "exponential",
   boDelay |-> 1, delay |-> 0, lifo |-> FALSE, dependsOn |-> {}, deadLetter |-> FALSE,
   dlMaxRetries |-> 0, removeOnComplete |-> FALSE, removeOnFail |-> FALSE,
   cron |-> FALSE, limit |-> 0, endDate |-> NoTime]

\* republishJob up to the end of queue.add: HGETALL of the dead-letter record,
\* null when there is none, else add(data, {jobId, attempts})
RepublishAdd(j, resetRetries) ==
  /\ dlPc[j] = "idle"
  /\ IF dlRecord[j].exists
       THEN /\ AddBody(j, RepublishOpts(resetRetries))
            /\ thrown' = [thrown EXCEPT ![j] = 0]
            /\ dlPc' = [dlPc EXCEPT ![j] = "added"]
            /\ UNCHANGED dlResult
       ELSE /\ dlResult' = [dlResult EXCEPT ![j] = "null"]
            /\ UNCHANGED <<dlPc, now, redisVars, workerVars, histVars, thrown>>
  /\ UNCHANGED <<deadLetter, dlRecord, dlEnabled, dlRemove>>
  /\ UNCHANGED <<prioVars, lockVars, leaderVars, rateVars, pauseVars, scaleVars, valVars, observing, jobStalled>>

\* republishJob: MULTI, LREM of the dead-letter list, DEL of the record, EXEC
RepublishRemove(j) ==
  /\ dlPc[j] = "added"
  /\ deadLetter' = LRemAll(deadLetter, j)
  /\ dlRecord' = [dlRecord EXCEPT ![j] = NoRecord]
  /\ dlPc' = [dlPc EXCEPT ![j] = "idle"]
  /\ dlResult' = [dlResult EXCEPT ![j] = "job"]
  /\ UNCHANGED <<dlEnabled, dlRemove>>
  /\ UNCHANGED <<now, redisVars, workerVars, histVars, prioVars, lockVars, leaderVars, rateVars,
                 pauseVars, obsVars, scaleVars, valVars>>

\* ------------------------------------------------------- pause and resume
pauseFrame == <<now, workerVars, histVars, prioVars, lockVars, leaderVars, rateVars, dlVars,
                obsVars, scaleVars, valVars>>

\* Queue.pause: SET <queue>:paused '1'
Pause ==
  /\ paused' = [type |-> "string", ids |-> <<>>]
  /\ pauseCalled' = TRUE
  /\ UNCHANGED <<redisVars, pauseFrame>>

\* Queue.resume: DEL <queue>:paused
Resume ==
  /\ paused' = NotPaused
  /\ pauseCalled' = FALSE
  /\ UNCHANGED <<redisVars, pauseFrame>>

\* the listed ids that bulkPause takes: the job exists and LREM of waiting or
\* ZREM of delayed removed it
Pausable(ids) ==
  {j \in ids : job[j].exists /\ (InList(waiting, j) \/ delayed[j] # NoTime)}

RECURSIVE LPushAll(_, _)
LPushAll(list, ids) ==
  IF ids = {} THEN list
  ELSE LET j == CHOOSE x \in ids : \A y \in ids : x <= y
       IN LPushAll(LPush(list, j), ids \ {j})

\* Queue.bulkPause(ids): LREM waiting, ZREM delayed, LPUSH <queue>:paused for
\* each id; the LPUSH fails with WRONGTYPE when the key holds the string '1'
BulkPause(ids) ==
  /\ ids # {}
  /\ waiting' = SelectSeq(waiting, LAMBDA x : x \notin Pausable(ids))
  /\ delayed' = [j \in JobIds |-> IF j \in Pausable(ids) THEN NoTime ELSE delayed[j]]
  /\ paused' = IF paused.type = "string" \/ Pausable(ids) = {}
                 THEN paused
                 ELSE [type |-> "list", ids |-> LPushAll(paused.ids, Pausable(ids))]
  /\ UNCHANGED <<job, active, completed, failed, depWait, dependents, jobLock>>
  /\ UNCHANGED <<pauseCalled, pauseFrame>>

\* the listed ids that bulkResume takes: the job exists and LREM of the
\* paused list removed it (on the string '1' the LREM fails with WRONGTYPE)
Resumable(ids) ==
  {j \in ids : job[j].exists /\ paused.type = "list" /\ InList(paused.ids, j)}

\* Queue.bulkResume(ids): LREM <queue>:paused and LPUSH waiting for each id;
\* a list that has lost its last member is no key
BulkResume(ids) ==
  /\ ids # {}
  /\ LET rest == SelectSeq(paused.ids, LAMBDA x : x \notin Resumable(ids))
     IN paused' = IF Resumable(ids) = {} THEN paused
                  ELSE IF rest = <<>> THEN NotPaused
                  ELSE [type |-> "list", ids |-> rest]
  /\ waiting' = LPushAll(waiting, Resumable(ids))
  /\ UNCHANGED <<job, active, completed, failed, delayed, depWait, dependents, jobLock>>
  /\ UNCHANGED <<pauseCalled, pauseFrame>>

\* ---------------------------------------------------------- Queue.removeJob
\* the removeJob calls of a run
MaxRemoves == 2

removeFrame == <<now, jobLock, workerVars, histVars, prioVars, lockVars, leaderVars, rateVars,
                 dlVars, pauseVars, obsVars, scaleVars, progress, call, trip, polls, stop,
                 wl, calc>>

\* removeJob(j), the test of its dependents loop on dependent d: every
\* dependency other than j has no hash or has finishedOn
OthersCompleted(jobs, d, j) ==
  \A dependency \in jobs[d].dependencies \ {j} :
    ~(jobs[dependency].exists /\ ~jobs[dependency].finishedOn)

RECURSIVE PushRemoved(_, _, _, _)
\* the waiting list after the dependents loop of removeJob(j) over `order`:
\* LPUSH waiting of every dependent that passes the test
PushRemoved(jobs, j, order, list) ==
  IF order = <<>> THEN list
  ELSE LET d == Head(order)
       IN PushRemoved(jobs, j, Tail(order),
            IF jobs[d].exists /\ jobs[d].dependencies # {} /\ OthersCompleted(jobs, d, j)
              THEN LPush(list, d) ELSE list)

\* the command of removeJob that Redis answers with WRONGTYPE, which ends the
\* call in its catch block: SREM of a status key that still holds a list
\* ("active" .. "failed"), LREM of dependency-wait while it holds its set
\* ("dependency-wait"), or none ("none").  A list or set without members is
\* no key, and a command on no key is no error.
RemoveFailsAt(j) ==
  IF LRemAll(active, j) # <<>> THEN "active"
  ELSE IF LRemAll(waiting, j) # <<>> THEN "waiting"
  ELSE IF LRemAll(completed, j) # <<>> THEN "completed"
  ELSE IF LRemAll(failed, j) # <<>> THEN "failed"
  ELSE IF depWait # {} THEN "dependency-wait"
  ELSE "none"

\* Queue.removeJob(j) of a job whose hash exists: LREM and SREM on the five
\* status keys in turn, ZREM delayed, the dependents loop, DEL of the hash and
\* of the dependents set.  Job.remove and PriorityQueue.removeJob are this call.
RemoveJob(j) ==
  /\ job[j].exists
  /\ Len(removed) < MaxRemoves
  /\ removed' = Append(removed, j)
  /\ LET at == RemoveFailsAt(j)
         done == at = "none"
     IN /\ active' = LRemAll(active, j)
        /\ completed' = IF at \in {"active", "waiting"} THEN completed ELSE LRemAll(completed, j)
        /\ failed' = IF at \in {"active", "waiting", "completed"} THEN failed
                     ELSE LRemAll(failed, j)
        /\ delayed' = IF done THEN [delayed EXCEPT ![j] = NoTime] ELSE delayed
        /\ depWait' = IF done THEN depWait \ dependents[j] ELSE depWait
        /\ job' = IF done THEN [job EXCEPT ![j] = NoJob] ELSE job
        /\ dependents' = IF done THEN [dependents EXCEPT ![j] = {}] ELSE dependents
        /\ IF done
             THEN \E order \in Orders(dependents[j]) :
                    waiting' = PushRemoved(job, j, order, LRemAll(waiting, j))
             ELSE waiting' = IF at = "active" THEN waiting ELSE LRemAll(waiting, j)
  /\ UNCHANGED removeFrame

\* ------------------------------------------------------------ CronScheduler
\* getNextExecutionTime of an expression that matches every tick of the clock:
\* the search starts from the next tick
NextExecutionTime(t) == t + 1

\* the options schedule() gives to add: repeat {cron, endDate, limit} and the
\* delay until the next execution (limit 0 and endDate NoTime: not given)
CronOpts(o, limit, endDate) ==
  [o EXCEPT !.cron = TRUE, !.limit = limit, !.endDate = endDate,
            !.delay = IF NextExecutionTime(now) - now > 0 THEN NextExecutionTime(now) - now ELSE 0]

\* CronScheduler.schedule
Schedule(j, o, limit, endDate) == Add(j, CronOpts(o, limit, endDate))

\* ------------------------------------------------------------ Worker.stop
\* the timeout argument of stop, in units of the clock
StopTimeout == 1

stopFrame == <<prioVars, lockVars, leaderVars, rateVars, dlVars, pauseVars, obsVars, scaleVars,
               progress, call, trip, polls, wl, removed, calc>>

\* stop(timeout) up to its await: running is cleared, the tick timer is
\* cancelled, and with an empty processing map stop returns at once; else it
\* awaits the promises that are in the map now, or the timeout
Stop(w) ==
  /\ running[w]
  /\ stop[w].pc = "none"
  /\ running' = [running EXCEPT ![w] = FALSE]
  /\ stop' = [stop EXCEPT ![w] =
                IF processing[w] = {} THEN [pc |-> "returned", promises |-> {}, at |-> now]
                ELSE [pc |-> "waiting", promises |-> processing[w], at |-> now]]
  /\ UNCHANGED <<now, redisVars, concurrency, processing, wpc, wReady, wBatch, tpc, histVars,
                 stopFrame>>

\* the Promise.race of stop is settled: every awaited promise has settled
\* (its id has left the processing map), or the timeout has elapsed
StopReturn(w) ==
  /\ stop[w].pc = "waiting"
  /\ \/ stop[w].promises \cap processing[w] = {}
     \/ now - stop[w].at >= StopTimeout
  /\ stop' = [stop EXCEPT ![w].pc = "returned"]
  /\ UNCHANGED <<now, redisVars, workerVars, histVars, stopFrame>>

\* ------------------------------------------------- overlapping polls
\* processTick calls processJobs without awaiting it and sets the next tick
\* 50 ms later: a call may begin while an earlier one awaits a reply.  The
\* calls of worker 1 are the polls.
PollWorker == 1

pollFrame == <<prioVars, lockVars, leaderVars, rateVars, dlVars, pauseVars, obsVars, scaleVars,
               progress, call, trip, stop, wl, removed, calc>>

\* the waiting list after the loop of moveDelayedJobsToWaiting over `ready`
RECURSIVE Promoted(_, _)
Promoted(list, ready) ==
  IF ready = <<>> THEN list ELSE Promoted(LPush(list, Head(ready)), Tail(ready))

\* processTick with capacity; processJobs: EXISTS paused, then
\* moveDelayedJobsToWaiting moves the ready ids to waiting
PollTick(p) ==
  /\ running[PollWorker]
  /\ polls[p].pc = "idle"
  /\ Cardinality(processing[PollWorker]) < concurrency[PollWorker]
  /\ ~IsPaused
  /\ waiting' = Promoted(waiting, ZRangeByScore(now))
  /\ delayed' = [j \in JobIds |-> IF InList(ZRangeByScore(now), j) THEN NoTime ELSE delayed[j]]
  /\ polls' = [polls EXCEPT ![p].pc = "range"]
  /\ UNCHANGED <<now, job, active, completed, failed, depWait, dependents, jobLock, workerVars,
                 histVars, pollFrame>>

\* processJobs: availableSlots and the LRANGE of the waiting list
PollRange(p) ==
  /\ polls[p].pc = "range"
  /\ LET availableSlots == concurrency[PollWorker] - Cardinality(processing[PollWorker])
         waitingJobs == IF availableSlots <= 0 THEN <<>> ELSE LRange(waiting, availableSlots)
     IN polls' = [polls EXCEPT ![p] = [pc |-> IF waitingJobs = <<>> THEN "idle" ELSE "exec",
                                      batch |-> waitingJobs]]
  /\ UNCHANGED <<now, redisVars, workerVars, histVars, pollFrame>>

\* the dispatch loop: an id that is processing is skipped; else Redis runs
\* the MULTI LREM LPUSH EXEC of moveToActive
PollExec(p) ==
  /\ polls[p].pc = "exec"
  /\ LET j == Head(polls[p].batch)
     IN IF j \in processing[PollWorker]
          THEN /\ polls' = [polls EXCEPT
                              ![p] = [pc |-> IF Tail(@.batch) = <<>> THEN "idle" ELSE "exec",
                                      batch |-> Tail(@.batch)]]
               /\ UNCHANGED <<waiting, active, dispatched>>
          ELSE /\ waiting' = LRemOne(waiting, j)
               /\ active' = LPush(active, j)
               /\ dispatched' = LogFirst(dispatched, j)
               /\ polls' = [polls EXCEPT ![p].pc = "process"]
  /\ UNCHANGED <<now, job, completed, failed, delayed, depWait, dependents, jobLock, workerVars,
                 handed, everCompleted, mustWait, adds, submitted, notBefore, pollFrame>>

\* the reply of EXEC has come: processJob(jobId) starts the invocation and
\* sets it in the processing map (a second invocation for an id that is in
\* flight replaces the entry of the map; the model follows the first)
PollProcess(p) ==
  /\ polls[p].pc = "process"
  /\ LET j == Head(polls[p].batch)
     IN /\ processing' = [processing EXCEPT ![PollWorker] = @ \cup {j}]
        /\ tpc' = [tpc EXCEPT ![PollWorker][j] = IF @ = "none" THEN "lock" ELSE @]
  /\ polls' = [polls EXCEPT ![p] = [pc |-> IF Tail(@.batch) = <<>> THEN "idle" ELSE "exec",
                                   batch |-> Tail(@.batch)]]
  /\ UNCHANGED <<now, redisVars, running, concurrency, wpc, wReady, wBatch, histVars, pollFrame>>

\* --------------------------------------------------- cron expressions
\* a field of a cron expression is a string, here a sequence of characters
MaxFieldLen == 2
Chars == {"1", "5", "*", "/", "-", ",", "x"}
Fields == UNION {[1..n -> Chars] : n \in 1..MaxFieldLen}
Star == <<"*">>

IsDigit(c) == c \in {"0", "1", "2", "3", "4", "5", "6", "7", "8", "9"}
DigitVal(c) ==
  CASE c = "0" -> 0 [] c = "1" -> 1 [] c = "2" -> 2 [] c = "3" -> 3 [] c = "4" -> 4
    [] c = "5" -> 5 [] c = "6" -> 6 [] c = "7" -> 7 [] c = "8" -> 8 [] c = "9" -> 9

\* Number.parseInt(s, 10) of a string without blanks or sign: the value of
\* the leading digits, NaN when there is none
NaN == 0 - 1
RECURSIVE ParseDigits(_, _)
ParseDigits(s, acc) ==
  IF s = <<>> \/ ~IsDigit(Head(s)) THEN acc
  ELSE ParseDigits(Tail(s), 10 * acc + DigitVal(Head(s)))
ParseInt(s) == IF s = <<>> \/ ~IsDigit(Head(s)) THEN NaN ELSE ParseDigits(s, 0)

\* s.split(c)
RECURSIVE Split(_, _)
Split(s, c) ==
  IF \A i \in 1..Len(s) : s[i] # c THEN <<s>>
  ELSE LET k == CHOOSE k \in 1..Len(s) : s[k] = c /\ \A i \in 1..(k - 1) : s[i] # c
       IN <<SubSeq(s, 1, k - 1)>> \o Split(SubSeq(s, k + 1, Len(s)), c)

Includes(s, c) == \E i \in 1..Len(s) : s[i] = c

\* parseField, one comma-separated part: a range, a step or a single value;
\* ok is FALSE where the source throws
PartValues(part, min, max) ==
  IF Includes(part, "-")
    THEN LET start == ParseInt(Split(part, "-")[1])
             end == ParseInt(Split(part, "-")[2])
         IN IF start = NaN \/ end = NaN \/ start < min \/ end > max \/ start > end
              THEN [ok |-> FALSE, values |-> {}]
              ELSE [ok |-> TRUE, values |-> start..end]
  ELSE IF Includes(part, "/")
    THEN LET range == Split(part, "/")[1]
             stepValue == ParseInt(Split(part, "/")[2])
             start == IF range # Star /\ ParseInt(range) # NaN THEN ParseInt(range) ELSE min
         IN IF stepValue = NaN \/ stepValue <= 0
              THEN [ok |-> FALSE, values |-> {}]
              ELSE [ok |-> TRUE,
                    values |-> {v \in start..max : (v - start) % stepValue = 0}]
  ELSE LET value == ParseInt(part)
       IN IF value = NaN \/ value < min \/ value > max
            THEN [ok |-> FALSE, values |-> {}]
            ELSE [ok |-> TRUE, values |-> {value}]

\* parseField: all is the null of the source (every value is valid)
ParseField(field, min, max) ==
  IF field = Star THEN [ok |-> TRUE, all |-> TRUE, values |-> {}]
  ELSE LET parts == Split(field, ",")
       IN [ok |-> \A i \in 1..Len(parts) : PartValues(parts[i], min, max).ok,
           all |-> FALSE,
           values |-> UNION {PartValues(parts[i], min, max).values : i \in 1..Len(parts)}]

\* parseCronExpression of the parts of expression.trim().split(/\s+/)
ParseCronExpression(expr) ==
  IF Len(expr) # 5 THEN [ok |-> FALSE]
  ELSE [ok |-> /\ ParseField(expr[1], 0, 59).ok /\ ParseField(expr[2], 0, 23).ok
               /\ ParseField(expr[3], 1, 31).ok /\ ParseField(expr[4], 1, 12).ok
               /\ ParseField(expr[5], 0, 6).ok,
        minute |-> ParseField(expr[1], 0, 59),
        hour |-> ParseField(expr[2], 0, 23),
        dayOfMonth |-> ParseField(expr[3], 1, 31),
        month |-> ParseField(expr[4], 1, 12),
        dayOfWeek |-> ParseField(expr[5], 0, 6)]

\* the expressions of the model: any minute field, every hour, day and month;
\* with four parts and with five
Expressions == {<<f, Star, Star, Star, Star>> : f \in Fields} \cup {<<f, Star, Star, Star>> : f \in Fields}

\* schedule.x === null || schedule.x.includes(v)
FieldMatches(parsed, v) == parsed.all \/ v \in parsed.values

\* a Date is a number of minutes; getMinutes and getHours
MinuteOf(date) == date % 60
HourOf(date) == (date \div 60) % 24

\* for (i < maxIterations)
MaxIterations == 1000

\* the search of getNextExecutionTime: the first date at or after `date` whose
\* hour and minute are in the schedule, NoTime for null.  The month and day
\* tests pass: these fields are null in every expression of the model.
RECURSIVE SearchNext(_, _, _)
SearchNext(schedule, date, i) ==
  IF i >= MaxIterations THEN NoTime
  ELSE IF ~FieldMatches(schedule.hour, HourOf(date))
         THEN SearchNext(schedule, (date \div 60 + 1) * 60, i + 1)
  ELSE IF ~FieldMatches(schedule.minute, MinuteOf(date))
         THEN SearchNext(schedule, date + 1, i + 1)
  ELSE date

\* getNextExecutionTime(schedule, now, timezone): with a timezone the fields
\* of the date are set to the wall clock of the zone, which is `shift` minutes
\* from the wall clock of the system; the search starts at the next minute
GetNextExecutionTime(schedule, ref, shift) == SearchNext(schedule, ref + shift + 1, 0)

\* what a step of the computation of execution times leaves alone
tripFrame == <<now, redisVars, workerVars, histVars, prioVars, lockVars, leaderVars, rateVars,
               dlVars, pauseVars, obsVars, scaleVars, progress, call, polls, stop, wl, removed, calc>>

\* schedule: the expression parses; new Date() is ref and options.timezone is
\* a zone whose wall clock is shift minutes from the wall clock of the system
TripParse(expr, ref, shift) ==
  /\ trip.pc = "none"
  /\ ParseCronExpression(expr).ok
  /\ trip' = [NoTrip EXCEPT !.expr = expr, !.ref = ref, !.shift = shift, !.pc = "parsed"]
  /\ UNCHANGED tripFrame

\* getNextExecutionTime(schedule, now, timezone)
TripNext ==
  /\ trip.pc = "parsed"
  /\ trip' = [trip EXCEPT
                !.t = GetNextExecutionTime(ParseCronExpression(trip.expr), trip.ref, trip.shift),
                !.pc = "first"]
  /\ UNCHANGED tripFrame

\* the expression is parsed again and the next time is computed from t
TripAgain ==
  /\ trip.pc = "first"
  /\ trip.t # NoTime
  /\ trip' = [trip EXCEPT
                !.t2 = GetNextExecutionTime(ParseCronExpression(trip.expr), trip.t, trip.shift),
                !.pc = "second"]
  /\ UNCHANGED tripFrame

\* ------------------------------------------------------- validated calls
MaxCalls == 2

\* the record of a call
Called(op, num, expr, threw) ==
  [n |-> call.n + 1, op |-> op, num |-> num, expr |-> expr, threw |-> threw]

\* everything a call that throws at its validation leaves alone
Thrown == UNCHANGED <<now, redisVars, workerVars, histVars, prioVars, lockVars, leaderVars,
                      rateVars, dlVars, pauseVars, obsVars, scaleVars, progress, trip, polls, stop, wl, removed, calc>>

\* PriorityQueue.add(data, {jobId: j, priority: p, ...o})
CallPrioAdd(j, o, p) ==
  /\ call.n < MaxCalls
  /\ IF p < 0 \/ p >= PriorityLevels
       THEN /\ call' = Called("add", p, <<>>, TRUE)
            /\ Thrown
       ELSE /\ PrioAddQueue(j, o, p)
            /\ call' = Called("add", p, <<>>, FALSE)
            /\ UNCHANGED <<progress, trip, polls, stop, wl, removed, calc>>

\* Job.updateProgress(v) of job j
UpdateProgress(j, v) ==
  /\ call.n < MaxCalls
  /\ job[j].exists
  /\ IF v < 0 \/ v > 100
       THEN /\ call' = Called("progress", v, <<>>, TRUE)
            /\ Thrown
       ELSE /\ progress' = [progress EXCEPT ![j] = v]
            /\ call' = Called("progress", v, <<>>, FALSE)
            /\ UNCHANGED <<now, redisVars, workerVars, histVars, prioVars, lockVars, leaderVars,
                           rateVars, dlVars, pauseVars, obsVars, scaleVars, trip, polls, stop, wl, removed, calc>>

\* the clock counts units of 10 s: new Date() in minutes
MinuteNow == now \div 6

\* CronScheduler.schedule({jobId: j, cronExpression: expr, ...o}): the parse
\* and a null next execution time throw before queue.add is reached
ScheduleCron(j, o, expr) ==
  /\ call.n < MaxCalls
  /\ LET schedule == ParseCronExpression(expr)
     IN IF ~schedule.ok \/ GetNextExecutionTime(schedule, MinuteNow, 0) = NoTime
          THEN /\ call' = Called("cron", 0, expr, TRUE)
               /\ Thrown
          ELSE /\ AddQueue(j, CronOpts(o, 0, NoTime))
               /\ call' = Called("cron", 0, expr, FALSE)
               /\ UNCHANGED <<progress, trip, polls, stop, wl, removed, calc>>

\* ------------------------------------------------------ horizontal scaling
\* options.maxWorkersPerInstance of the first instance
MaxWorkersPerInstance == 2

\* pollInterval * 3 in units of the clock: the life of an instance key and the
\* age at which a heartbeat is stale
InstanceExpiry == 1

scaleFrame == <<redisVars, workerVars, histVars, prioVars, lockVars, leaderVars, rateVars,
                dlVars, pauseVars, obsVars, valVars>>

\* GET of an instance key returns a value: the key has not expired
KeyAlive(x) == instanceInfo[x].setAt # NoTime /\ now - instanceInfo[x].setAt < InstanceExpiry

\* options.maxWorkersPerInstance of instance i
MaxWorkersOf(i) == MaxWorkersPerInstance + (i - 1)

\* the value registerInstance SETs
Registered(info, i) ==
  [info EXCEPT ![i] = [setAt |-> now, lastHeartbeat |-> now,
                       maxWorkers |-> MaxWorkersOf(i), workersAssigned |-> 0]]

\* startHorizontalScaling after leaderElection.start has returned:
\* workCoordinator.start registers the instance and starts polling
RegisterInstance(i) ==
  /\ spc[i] = "election"
  /\ lpc[i] = "idle"
  /\ instances' = instances \cup {i}
  /\ instanceInfo' = Registered(instanceInfo, i)
  /\ spc' = [spc EXCEPT ![i] = "worker"]
  /\ UNCHANGED <<now, ran, failVars, coordVars, scaleFrame>>

\* the concurrency queue.process is called with
ProcessConcurrency == 1

\* a cleanup cycle of instance i is recorded with its leadership at that time
WithRun(task, i) == ran \cup {<<task, i, isLeader[i]>>}

\* startWorker: the worker is created and CleanupService.start runs a cleanup
\* at once.  A cleanup removes the completed and failed jobs older than a day
\* (a week) or beyond 1000 entries: none within the bounds of the clock.
StartWorker(i) ==
  /\ spc[i] = "worker"
  /\ spc' = [spc EXCEPT ![i] = "running"]
  /\ ran' = WithRun("cleanup", i)
  /\ scaleConcurrency' = [scaleConcurrency EXCEPT ![i] = ProcessConcurrency]
  /\ UNCHANGED <<now, instances, instanceInfo, failVars, cycled, target, coordWorkers,
                 adjusted, scaleFrame>>

\* the cleanup timer of CleanupService fires
Cleanup(i) ==
  /\ spc[i] = "running"
  /\ ran' = WithRun("cleanup", i)
  /\ UNCHANGED <<now, spc, instances, instanceInfo, failVars, coordVars, scaleFrame>>

\* the poll timer: sendHeartbeat re-registers when the key is gone, else
\* SETs the key with lastHeartbeat = now
SendHeartbeat(i) ==
  /\ spc[i] \in {"worker", "running"}
  /\ instances' = IF KeyAlive(i) THEN instances ELSE instances \cup {i}
  /\ instanceInfo' = IF KeyAlive(i)
                        THEN [instanceInfo EXCEPT ![i].setAt = now, ![i].lastHeartbeat = now]
                        ELSE Registered(instanceInfo, i)
  /\ UNCHANGED <<now, spc, ran, failVars, coordVars, scaleFrame>>

\* the registered instances whose key is alive and whose heartbeat is stale
Stale == {x \in instances : KeyAlive(x) /\ now - instanceInfo[x].lastHeartbeat > InstanceExpiry}

\* activeInstances of coordinateWork
ActiveInstances == {x \in instances : KeyAlive(x)} \ Stale

Min2(a, b) == IF a < b THEN a ELSE b

RECURSIVE SumOf(_, _)
SumOf(f, S) == IF S = {} THEN 0 ELSE LET x == CHOOSE x \in S : TRUE IN f[x] + SumOf(f, S \ {x})

\* calculateWorkerDistribution, first pass: the proportional share of each
\* instance in discovery order, capped at its maxWorkers
RECURSIVE FirstPass(_, _, _, _)
FirstPass(info, order, remainingWorkers, remainingCapacity) ==
  IF order = <<>> THEN [dist |-> [x \in Instances |-> 0], rem |-> remainingWorkers]
  ELSE LET id == Head(order)
           maxWorkers == info[id].maxWorkers
           workerShare == Min2((maxWorkers * remainingWorkers) \div remainingCapacity, maxWorkers)
           rest == FirstPass(info, Tail(order), remainingWorkers - workerShare,
                             remainingCapacity - maxWorkers)
       IN [dist |-> [rest.dist EXCEPT ![id] = workerShare], rem |-> rest.rem]

\* instancesByRoom: the stable sort by distribution / maxWorkers, lowest first
RECURSIVE SortByRatio(_, _, _)
SortByRatio(info, dist, ids) ==
  IF ids = <<>> THEN <<>>
  ELSE LET Less(a, b) == dist[a] * info[b].maxWorkers < dist[b] * info[a].maxWorkers
           k == CHOOSE k \in 1..Len(ids) :
                  \A m \in 1..Len(ids) :
                    m # k => (Less(ids[k], ids[m]) \/ (~Less(ids[m], ids[k]) /\ k < m))
       IN <<ids[k]>> \o SortByRatio(info, dist, SubSeq(ids, 1, k - 1) \o SubSeq(ids, k + 1, Len(ids)))

\* calculateWorkerDistribution, second pass: one worker at a time to the
\* instances with room, round and round (with no room left the loop of the
\* source would not end: the first pass leaves no more workers than room)
RECURSIVE SecondPass(_, _, _, _, _)
SecondPass(info, dist, instancesByRoom, i, remainingWorkers) ==
  IF remainingWorkers = 0 \/ instancesByRoom = <<>>
     \/ \A k \in 1..Len(instancesByRoom) :
          dist[instancesByRoom[k]] >= info[instancesByRoom[k]].maxWorkers
    THEN dist
  ELSE LET id == instancesByRoom[i]
           room == dist[id] < info[id].maxWorkers
       IN SecondPass(info, IF room THEN [dist EXCEPT ![id] = @ + 1] ELSE dist, instancesByRoom,
                     IF i = Len(instancesByRoom) THEN 1 ELSE i + 1,
                     IF room THEN remainingWorkers - 1 ELSE remainingWorkers)

\* a distribution that fills every instance
FullDistribution(info, order, totalWorkers, totalMaxWorkers) ==
  [x \in Instances |-> info[x].maxWorkers]

\* calculateWorkerDistribution; an instance without an entry reads as 0
CalculateWorkerDistribution(info, order, totalWorkers, totalMaxWorkers) ==
  IF order = <<>> \/ totalWorkers = 0 THEN [x \in Instances |-> 0]
  ELSE LET first == FirstPass(info, order, Min2(totalWorkers, totalMaxWorkers), totalMaxWorkers)
           HasRoom(id) == first.dist[id] < info[id].maxWorkers
       IN IF first.rem > 0
            THEN SecondPass(info, first.dist,
                            SortByRatio(info, first.dist, SelectSeq(order, HasRoom)), 1, first.rem)
            ELSE first.dist

\* the poll timer: coordinateWork evicts the stale instances (SREM, DEL),
\* computes the distribution over the active instances in the order SMEMBERS
\* gave them and SETs its own key again with the lastHeartbeat it read and its
\* own share as workersAssigned
CoordinateWorkStep(i) ==
  /\ spc[i] \in {"worker", "running"}
  /\ instances # {}
  /\ instances' = instances \ Stale
  /\ \E order \in Orders(ActiveInstances) :
       LET totalWorkers == SumOf([x \in Instances |-> instanceInfo[x].workersAssigned],
                                 ActiveInstances)
           totalMaxWorkers == SumOf([x \in Instances |-> instanceInfo[x].maxWorkers],
                                    ActiveInstances)
           workerDistribution ==
             CalculateWorkerDistribution(instanceInfo, order, totalWorkers, totalMaxWorkers)
       IN /\ instanceInfo' =
               [x \in Instances |->
                  IF x \in Stale THEN NoInfo
                  ELSE IF x = i /\ i \in ActiveInstances
                         THEN [instanceInfo[i] EXCEPT !.setAt = now,
                                                      !.workersAssigned = workerDistribution[i]]
                  ELSE instanceInfo[x]]
          /\ cycled' = IF ActiveInstances = {} THEN cycled ELSE cycled \cup {i}
          /\ target' = IF ActiveInstances = {} THEN target
                        ELSE Min2(totalWorkers, totalMaxWorkers)
          /\ coordWorkers' = IF ActiveInstances = {} THEN coordWorkers
                              ELSE [coordWorkers EXCEPT ![i] = workerDistribution[i]]
  /\ UNCHANGED <<now, spc, failVars, scaleConcurrency, adjusted, scaleFrame>>

\* a coordinateWork cycle of instance i, recorded with its leadership at that time
CoordinateWork(i) ==
  /\ CoordinateWorkStep(i)
  /\ ran' = WithRun("evict", i)

\* a coordinateWork cycle of instance i, not recorded
Coordinate(i) ==
  /\ CoordinateWorkStep(i)
  /\ UNCHANGED ran

\* the largest maxWorkers of an instance and the largest totalWorkers of a call
MaxCapacity == 3
MaxTotalWorkers == 7

calcFrame == <<now, redisVars, workerVars, histVars, prioVars, lockVars, leaderVars, rateVars,
               dlVars, pauseVars, obsVars, scaleVars, progress, call, trip, polls, stop, wl,
               removed>>

\* calculateWorkerDistribution(instanceInfo, activeInstances, totalWorkers,
\* totalMaxWorkers) up to its second pass: the early return, the cap of
\* totalWorkers, the first pass and the filter and sort of instancesByRoom.
\* totalMaxWorkers is the sum coordinateWork passes.  The proportional share
\* is computed in integers.
CalcStart(maxWorkers, order, totalWorkers) ==
  /\ calc.pc = "idle"
  /\ LET info == [x \in Instances |-> [NoInfo EXCEPT !.maxWorkers = maxWorkers[x]]]
         totalMaxWorkers == SumOf(maxWorkers, {order[k] : k \in 1..Len(order)})
         first == FirstPass(info, order, Min2(totalWorkers, totalMaxWorkers), totalMaxWorkers)
         HasRoom(id) == first.dist[id] < maxWorkers[id]
         args == [NoCalc EXCEPT !.maxWorkers = maxWorkers, !.order = order,
                                !.totalWorkers = totalWorkers,
                                !.totalMaxWorkers = totalMaxWorkers]
     IN calc' = IF order = <<>> \/ totalWorkers = 0
                  THEN [args EXCEPT !.pc = "done"]
                  ELSE [args EXCEPT !.pc = "second", !.distribution = first.dist,
                                    !.remainingWorkers = first.rem,
                                    !.instancesByRoom =
                                      IF first.rem > 0
                                        THEN SortByRatio(info, first.dist, SelectSeq(order, HasRoom))
                                        ELSE <<>>]
  /\ UNCHANGED calcFrame

\* the second pass, one test of the loop condition: an iteration of the loop
\* with its wrap-around (i = -1, then i++), or the return
CalcSecond ==
  /\ calc.pc = "second"
  /\ IF calc.remainingWorkers > 0 /\ calc.i < Len(calc.instancesByRoom)
       THEN LET instanceId == calc.instancesByRoom[calc.i + 1]
                room == calc.distribution[instanceId] < calc.maxWorkers[instanceId]
                remainingWorkers == IF room THEN calc.remainingWorkers - 1
                                    ELSE calc.remainingWorkers
                i == IF calc.i = Len(calc.instancesByRoom) - 1 /\ remainingWorkers > 0
                       THEN 0 - 1 ELSE calc.i
            IN calc' = [calc EXCEPT !.distribution[instanceId] = IF room THEN @ + 1 ELSE @,
                                    !.remainingWorkers = remainingWorkers,
                                    !.i = i + 1]
       ELSE calc' = [calc EXCEPT !.pc = "done"]
  /\ UNCHANGED calcFrame

\* the adjustConcurrency calls the adjustment timer of an instance may make
MaxAdjust == 2

\* Worker.adjustConcurrency(newConcurrency): throws unless newConcurrency > 0,
\* else stores it; it touches nothing but Worker.concurrency
AdjustConcurrency(concurrency_, newConcurrency) ==
  IF newConcurrency <= 0 THEN [threw |-> TRUE, concurrency |-> concurrency_]
  ELSE [threw |-> FALSE, concurrency |-> newConcurrency]

\* the adjustWorkerInterval callback of startHorizontalScaling: the target
\* is getWorkerCount(), which returns WorkCoordinator.workers.  A throw leaves
\* the callback; the timer stays set.
AdjustWorkers(i) ==
  /\ spc[i] = "running"
  /\ adjusted[i].calls < MaxAdjust
  /\ LET targetWorkers == coordWorkers[i]
         r == AdjustConcurrency(scaleConcurrency[i], targetWorkers)
     IN IF targetWorkers # scaleConcurrency[i]
          THEN /\ scaleConcurrency' = [scaleConcurrency EXCEPT ![i] = r.concurrency]
               /\ adjusted' = [adjusted EXCEPT ![i] = [calls |-> @.calls + 1, threw |-> r.threw]]
          ELSE UNCHANGED <<scaleConcurrency, adjusted>>
  /\ UNCHANGED <<now, spc, instances, instanceInfo, ran, failVars, cycled, target,
                 coordWorkers, scaleFrame>>

\* ---------------------------------------------------------- specifications
InitPrio ==
  /\ prio = [l \in Levels |-> <<>>]
  /\ ppc = NoLevel
  /\ pRead = <<>>
  /\ reorder = [pc |-> "idle", ids |-> <<>>, runs |-> 0]

WorkerStep(w) ==
  \/ TickStart(w)
  \/ PromoteOne(w)
  \/ Fetch(w)
  \/ MoveOne(w)
  \/ \E j \in JobIds : AcquireLock(w, j)
  \/ \E j \in JobIds : HandlerReturn(w, j)
  \/ \E j \in JobIds : HandlerThrow(w, j)
  \/ \E j \in JobIds : Complete(w, j)
  \/ \E j \in JobIds : Fail(w, j)

\* retries, backoff and stalled recovery: two workers poll one queue, job ids
\* may be submitted again
RetryJobs == {1}
OptsRetry == JobOpts(1..MaxAttempts, {"fixed"}, 0..MaxDelay, {0}, {FALSE}, {{}})

Init ==
  /\ now = 0
  /\ InitRedis
  /\ InitWorkers(Workers, 1)
  /\ InitHist
  /\ InitPrio
  /\ InitLock
  /\ InitLeader
  /\ InitRate
  /\ InitExt

Next ==
  \/ \E j \in RetryJobs, o \in OptsRetry : Add(j, o)
  \/ \E w \in Workers : WorkerStep(w)
  \/ \E w \in Workers, j \in JobIds : LockFail(w, j)
  \/ \E j \in JobIds : StalledCheck(j)
  \/ Tick

Spec == Init /\ [][Next]_vars

\* dependencies and delays: one worker, every job id is submitted once and
\* depends on ids below its own only
DepJobs == 1..2
OptsDeps == JobOpts({MaxAttempts}, {"fixed"}, {MaxDelay}, 0..MaxDelay, {FALSE}, SUBSET DepJobs)

InitDeps ==
  /\ now = 0
  /\ InitRedis
  /\ InitWorkers({1}, 1)
  /\ InitHist
  /\ InitPrio
  /\ InitLock
  /\ InitLeader
  /\ InitRate
  /\ InitExt

NextDeps ==
  \/ \E j \in DepJobs, o \in OptsDeps :
       ~job[j].exists /\ o.dependsOn \subseteq 1..(j - 1) /\ Add(j, o)
  \/ WorkerStep(1)
  \/ Tick

SpecDeps == InitDeps /\ [][NextDeps]_vars

\* submission order: the jobs are submitted to one queue, then Queue.process
\* starts one worker with concurrency 1
OptsOrder == JobOpts({1}, {"none"}, {0}, 0..MaxDelay, BOOLEAN, {{}})

InitOrder ==
  /\ now = 0
  /\ InitRedis
  /\ InitWorkers({}, 1)
  /\ InitHist
  /\ InitPrio
  /\ InitLock
  /\ InitLeader
  /\ InitRate
  /\ InitExt

NextOrder ==
  \/ \E j \in JobIds, o \in OptsOrder : ~job[j].exists /\ ~running[1] /\ Add(j, o)
  \/ Start(1)
  \/ WorkerStep(1)
  \/ Tick

SpecOrder == InitOrder /\ [][NextOrder]_vars

\* priority levels: the jobs are submitted to a PriorityQueue, then
\* PriorityQueue.process starts the pump and one worker with concurrency 1
NextPrio ==
  \/ \E j \in JobIds, o \in OptsOrder, p \in Levels :
       ~job[j].exists /\ ~running[1] /\ PrioAdd(j, o, p)
  \/ Start(1)
  \/ running[1] /\ PumpStart
  \/ PumpRead
  \/ PumpMove
  \/ WorkerStep(1)
  \/ Tick

SpecPrio == InitOrder /\ [][NextPrio]_vars

\* clients of one DistributedLock resource
NextLock ==
  \/ \E c \in Clients : Acquire(c)
  \/ \E c \in Clients : ReleaseGet(c)
  \/ \E c \in Clients : ReleaseDel(c)
  \/ \E c \in Clients : ExtendGet(c)
  \/ \E c \in Clients : ExtendExpire(c)
  \/ LockTimePasses

SpecLock == Init /\ [][NextLock]_vars

\* clients calling withLock on one resource; fn returns or throws
NextWithLock ==
  \/ \E c \in Clients : WithLock(c)
  \/ \E c \in Clients : AcquireAttempt(c)
  \/ \E c \in Clients, result \in {"returned", "threw"} : RunFn(c, result)
  \/ \E c \in Clients : WithLockReleaseGet(c)
  \/ \E c \in Clients : WithLockReleaseDel(c)
  \/ \E c \in Clients : AutoExtendGet(c)
  \/ \E c \in Clients : AutoExtendExpire(c)
  \/ WithLockTimePasses

SpecWithLock == Init /\ [][NextWithLock]_vars

\* instances running leader election on one key
NextLeader ==
  \/ \E i \in Instances : CheckLeadership(i)
  \/ \E i \in Instances : ElectGet(i)
  \/ \E i \in Instances : ElectSet(i)
  \/ \E i \in Instances : Heartbeat(i)
  \/ LeaderTick

SpecLeader == Init /\ [][NextLeader]_vars

\* what a step of the failover scenario leaves alone
failFrame == <<redisVars, workerVars, histVars, prioVars, lockVars, rateVars,
               dlVars, pauseVars, obsVars, spc, instances, instanceInfo, ran, coordVars, valVars>>

\* startWatchdog: the timer of a live instance fires every heartbeatInterval
\* (one unit of the clock) and runs checkLeadership; electLeader runs the same
\* checkLeadership after a lost SET NX
Watchdog(i) ==
  /\ i \notin crashed
  /\ CheckLeadershipStep(i)
  /\ watched' = IF lpc[i] = "idle" THEN watched \cup {i} ELSE watched
  /\ UNCHANGED <<crashed, crashedAt, became, failFrame>>

\* electLeader of a live instance; becomeLeader sets isLeader and calls
\* onBecomeLeader
Elect(i) ==
  /\ i \notin crashed
  /\ ElectGetStep(i) \/ ElectSetStep(i)
  /\ became' = IF isLeader'[i] /\ ~isLeader[i] THEN became \cup {i} ELSE became
  /\ UNCHANGED <<crashed, crashedAt, watched, failFrame>>

\* the process of the current leader dies: its timers stop, stepDown does not
\* run and the leader key is left to expire
Crash(i) ==
  /\ crashed = {}
  /\ isLeader[i]
  /\ GetCurrentLeader = i
  /\ \A x \in Instances \ {i} : ~isLeader[x]
  /\ crashed' = {i}
  /\ crashedAt' = now
  /\ became' = {}
  /\ UNCHANGED <<now, leaderVars, watched, failFrame>>

\* a heartbeatInterval passes: the watchdog of every live instance has fired
\* in it and the election it started has returned
FailoverTick ==
  /\ \A i \in Instances \ crashed : i \in watched /\ lpc[i] = "idle"
  /\ LeaderClock
  /\ watched' = {}
  /\ UNCHANGED <<crashed, crashedAt, became, failFrame>>

\* leader election with timers that fire on time and a leader that may crash
NextFailover ==
  \/ \E i \in Instances : Watchdog(i)
  \/ \E i \in Instances : Elect(i)
  \/ \E i \in Instances \ crashed : Heartbeat(i)
  \/ \E i \in Instances : Crash(i)
  \/ FailoverTick

SpecFailover == Init /\ [][NextFailover]_vars

\* checks of one rate-limit identifier
NextRate ==
  \/ \E r \in RandValues : Check(r)
  \/ RateTick

SpecRate == Init /\ [][NextRate]_vars

\* dead-letter: one worker, one job submitted with opts.deadLetter, republished
\* from the dead-letter store
DlJobs == {1}
MaxDlRetries == 2
OptsDl ==
  WithDeadLetter(JobOpts(1..MaxAttempts, {"fixed"}, {0}, {0}, {FALSE}, {{}}), 0..MaxDlRetries)

InitDl ==
  /\ now = 0
  /\ InitRedis
  /\ InitWorkers({1}, 1)
  /\ InitHist
  /\ InitPrio
  /\ InitLock
  /\ InitLeader
  /\ InitRate
  /\ \E rm \in BOOLEAN : InitDeadLetter(FALSE, rm)
  /\ InitPause
  /\ InitObs(FALSE)
  /\ InitScale
  /\ InitVal

NextDl ==
  \/ \E j \in DlJobs, o \in OptsDl : ~job[j].exists /\ Add(j, o)
  \/ WorkerStep(1)
  \/ \E j \in DlJobs, resetRetries \in BOOLEAN : RepublishAdd(j, resetRetries)
  \/ \E j \in DlJobs : RepublishRemove(j)
  \/ Tick

SpecDl == InitDl /\ [][NextDl]_vars

\* pause: one worker with concurrency 1, two jobs, pause / resume / bulkPause
PauseJobs == 1..2

NextPause ==
  \/ \E j \in PauseJobs, o \in OptsOrder : ~job[j].exists /\ ~o.lifo /\ Add(j, o)
  \/ Start(1)
  \/ WorkerStep(1)
  \/ Pause
  \/ Resume
  \/ \E ids \in SUBSET PauseJobs : BulkPause(ids)
  \/ Tick

SpecPause == InitOrder /\ [][NextPause]_vars

\* attempts and backoff: one worker, one job submitted once, the stalled-job
\* checker of the queue, and a clock that covers the longest backoff
MaxBackoffAttempts == 3
MaxBackoffTime == 3
OptsBackoff == JobOpts(1..MaxBackoffAttempts, {"fixed", "exponential"}, 0..MaxDelay, {0}, {FALSE}, {{}})

InitBackoff ==
  /\ now = 0
  /\ InitRedis
  /\ InitWorkers({1}, 1)
  /\ InitHist
  /\ InitPrio
  /\ InitLock
  /\ InitLeader
  /\ InitRate
  /\ InitDeadLetter(FALSE, TRUE)
  /\ InitPause
  /\ InitObs(TRUE)
  /\ InitScale
  /\ InitVal

NextBackoff ==
  \/ \E o \in OptsBackoff : ~job[1].exists /\ Add(1, o)
  \/ WorkerStep(1)
  \/ StalledCheck(1)
  \/ Advance(MaxBackoffTime)

SpecBackoff == InitBackoff /\ [][NextBackoff]_vars

\* auto-removal: one worker, one job submitted once with removeOnComplete and
\* removeOnFail
OptsRemove == WithRemove(JobOpts(1..MaxAttempts, {"fixed"}, 0..MaxDelay, {0}, {FALSE}, {{}}))

NextRemove ==
  \/ \E o \in OptsRemove : ~job[1].exists /\ Add(1, o)
  \/ WorkerStep(1)
  \/ Tick

SpecRemove == InitBackoff /\ [][NextRemove]_vars

\* cron: one worker, one job scheduled once with a cron expression
MaxLimit == 2
MaxEndDate == 2
OptsCron == JobOpts(1..MaxAttempts, {"none"}, {0}, {0}, {FALSE}, {{}})

NextCron ==
  \/ \E o \in OptsCron, limit \in 0..MaxLimit, endDate \in {NoTime} \cup 0..MaxEndDate :
       ~job[1].exists /\ Schedule(1, o, limit, endDate)
  \/ WorkerStep(1)
  \/ Tick

SpecCron == InitBackoff /\ [][NextCron]_vars

\* calls with arguments that may fail the validation of the callee
ProgressValues == {0 - 1, 0, 50, 100, 101}
OptsPlain == JobOpts({1}, {"none"}, {0}, {0}, {FALSE}, {{}})

NextValidate ==
  \/ \E j \in JobIds, o \in OptsPlain, p \in (0 - 1)..PriorityLevels :
       ~job[j].exists /\ CallPrioAdd(j, o, p)
  \/ \E j \in JobIds, v \in ProgressValues : UpdateProgress(j, v)
  \/ \E o \in OptsPlain, expr \in Expressions : ScheduleCron(1, o, expr)

SpecValidate == InitOrder /\ [][NextValidate]_vars

\* next execution times: reference times in the second day, zones an hour to
\* either side of the system
MaxRef == 2
RefTimes == {60 * 24 + r : r \in 0..MaxRef}
TzShifts == {0 - 60, 0, 60}

NextTrip ==
  \/ \E expr \in Expressions, ref \in RefTimes, shift \in TzShifts : TripParse(expr, ref, shift)
  \/ TripNext
  \/ TripAgain

SpecTrip == InitOrder /\ [][NextTrip]_vars

\* one worker whose polls overlap; its handlers return
NextPoll ==
  \/ \E j \in JobIds, o \in OptsPlain : ~job[j].exists /\ Add(j, o)
  \/ \E p \in Polls : PollTick(p)
  \/ \E p \in Polls : PollRange(p)
  \/ \E p \in Polls : PollExec(p)
  \/ \E p \in Polls : PollProcess(p)
  \/ \E j \in JobIds : AcquireLock(PollWorker, j)
  \/ \E j \in JobIds : HandlerReturn(PollWorker, j)
  \/ \E j \in JobIds : Complete(PollWorker, j)

SpecPoll == Init /\ [][NextPoll]_vars

\* shutdown: the workers of one queue poll until stop is called
NextStop ==
  \/ \E j \in JobIds, o \in OptsPlain : ~job[j].exists /\ Add(j, o)
  \/ \E w \in Workers : TickStart(w)
  \/ \E w \in Workers : Fetch(w)
  \/ \E w \in Workers : MoveOne(w)
  \/ \E w \in Workers, j \in JobIds : AcquireLock(w, j)
  \/ \E w \in Workers, j \in JobIds : LockFail(w, j)
  \/ \E w \in Workers, j \in JobIds : HandlerReturn(w, j)
  \/ \E w \in Workers, j \in JobIds : Complete(w, j)
  \/ \E w \in Workers : Stop(w)
  \/ \E w \in Workers : StopReturn(w)
  \/ Tick

SpecStop == Init /\ [][NextStop]_vars

\* removal: jobs with dependencies are added to a queue and to the levels of
\* a priority queue, one worker processes them, ids are bulk-paused and removed
NextRemoveJob ==
  \/ \E j \in DepJobs, o \in OptsDeps :
       ~job[j].exists /\ o.delay = 0 /\ o.dependsOn \subseteq 1..(j - 1) /\ Add(j, o)
  \/ \E o \in OptsPlain, p \in Levels : ~job[MaxJobs].exists /\ PrioAdd(MaxJobs, o, p)
  \/ TickStart(1)
  \/ Fetch(1)
  \/ MoveOne(1)
  \/ \E j \in JobIds : AcquireLock(1, j)
  \/ \E j \in JobIds : HandlerReturn(1, j)
  \/ \E j \in JobIds : Complete(1, j)
  \/ \E ids \in SUBSET DepJobs : BulkPause(ids)
  \/ \E j \in JobIds : RemoveJob(j)

SpecRemoveJob == InitDeps /\ [][NextRemoveJob]_vars

\* submissions to a queue with a limiter, beside other checks of the identifier
NextRateAdd ==
  \/ \E j \in JobIds, delay \in 0..MaxRateDelay : RateAddStart(j, delay)
  \/ \E r \in RandValues : Check(r)
  \/ \E r \in RandValues : RateAddCheck(r)
  \/ \E o \in OptsPlain : RateAddStore(o)
  \/ RateTick

SpecRateAdd == Init /\ [][NextRateAdd]_vars

\* a priority queue whose pump and reordering timer run while jobs are added
NextPump ==
  \/ \E j \in JobIds, o \in OptsPlain, p \in Levels : ~job[j].exists /\ PrioAdd(j, o, p)
  \/ PumpStart
  \/ PumpRead
  \/ PumpMove
  \/ ReorderRead
  \/ ReorderWrite

SpecPump == InitOrder /\ [][NextPump]_vars

\* pause, resume, bulkPause and bulkResume on a queue that jobs are added to
NextBulk ==
  \/ \E j \in PauseJobs, o \in OptsOrder : ~job[j].exists /\ ~o.lifo /\ Add(j, o)
  \/ Pause
  \/ Resume
  \/ \E ids \in SUBSET PauseJobs : BulkPause(ids)
  \/ \E ids \in SUBSET PauseJobs : BulkResume(ids)

SpecBulk == InitOrder /\ [][NextBulk]_vars

\* calls of calculateWorkerDistribution over every order of every non-empty
\* set of instances
NextCalc ==
  \/ \E S \in SUBSET Instances, maxWorkers \in [Instances -> 1..MaxCapacity],
        totalWorkers \in 0..MaxTotalWorkers :
       S # {} /\ \E order \in Orders(S) : CalcStart(maxWorkers, order, totalWorkers)
  \/ CalcSecond

\* a call that has started runs on
SpecCalc == InitOrder /\ [][NextCalc]_vars /\ WF_vars(CalcSecond)

\* horizontal scaling: every instance runs startHorizontalScaling
NextScale ==
  \/ NextLeader
  \/ \E i \in Instances : RegisterInstance(i)
  \/ \E i \in Instances : StartWorker(i)
  \/ \E i \in Instances : Cleanup(i)
  \/ \E i \in Instances : SendHeartbeat(i)
  \/ \E i \in Instances : CoordinateWork(i)

SpecScale == Init /\ [][NextScale]_vars

\* horizontal scaling with the adjustment timer of startHorizontalScaling
NextAdjust ==
  \/ \E i \in Instances : ElectGet(i)
  \/ \E i \in Instances : ElectSet(i)
  \/ \E i \in Instances : CheckLeadership(i)
  \/ \E i \in Instances : RegisterInstance(i)
  \/ \E i \in Instances : StartWorker(i)
  \/ \E i \in Instances : SendHeartbeat(i)
  \/ \E i \in Instances : Coordinate(i)
  \/ \E i \in Instances : AdjustWorkers(i)
  \/ LeaderTick

SpecAdjust == Init /\ [][NextAdjust]_vars

\* ------------------------------------------------------------- properties
\* the number of occurrences of v in a list
Count(list, v) == Cardinality({i \in 1..Len(list) : list[i] = v})

\* the position of the first occurrence of x in a list that holds it
Pos(list, x) == CHOOSE i \in 1..Len(list) : list[i] = x /\ \A k \in 1..(i - 1) : list[k] # x

\* the number of the state structures that hold job id j
StatesOf(j) ==
  (IF InList(waiting, j) THEN 1 ELSE 0) + (IF InList(active, j) THEN 1 ELSE 0)
  + (IF InList(completed, j) THEN 1 ELSE 0) + (IF InList(failed, j) THEN 1 ELSE 0)
  + (IF delayed[j] # NoTime THEN 1 ELSE 0) + (IF j \in depWait THEN 1 ELSE 0)

\* C1: single-state invariant.  After any interleaving of add (also with a used
\* jobId), dispatch, completion, failure, immediate or delayed retry, delayed
\* promotion and stalled recovery, every job id is in at most one of waiting,
\* active, completed, failed, delayed and dependency-wait.
C1_SingleState == \A j \in JobIds : StatesOf(j) <= 1

\* C2: at-least-once.  Once a handler invocation of a job has returned and the
\* job was committed to completed, the job stays in completed and enters no
\* other state structure (until it is removed or submitted again).
C2_StaysCompleted ==
  [][\A j \in JobIds :
       (everCompleted[j] /\ everCompleted'[j]) =>
         /\ InList(completed', j)
         /\ Count(waiting', j) <= Count(waiting, j)
         /\ Count(active', j) <= Count(active, j)
         /\ Count(failed', j) <= Count(failed, j)
         /\ (delayed[j] = NoTime => delayed'[j] = NoTime)
         /\ (j \in depWait' => j \in depWait)]_vars

\* C3: bounded attempts.  A job submitted once is handed to a handler at most
\* opts.attempts + maxStalledRetries times, whatever the number of workers.
C3_BoundedAttempts ==
  \A j \in JobIds :
    (adds <= 1 /\ job[j].exists) => handed[j] <= MaxAttemptsOf(job[j]) + MaxStalledRetries

\* C4: lock safety.  A release that ends while the key holds the token of
\* another client is a no-op: it leaves the key as it is and returns false.
C4_ReleaseNonOwnerNoOp ==
  [][\A c \in Clients :
       (cpc[c] \in {"held", "releasing"} /\ cpc'[c] = "idle"
          /\ lockVal # NoToken /\ lockVal # ctoken[c]) =>
         (lockVal' = lockVal /\ released'[c] = "false")]_vars

\* C5: leader uniqueness.  At every instant at most one instance has
\* isCurrentLeader() = true.
C5_LeaderUnique == Cardinality({i \in Instances : isLeader[i]}) <= 1

\* C6: rate-limit ceiling.  In every window of length duration ending at a time
\* t, at most max checks returned limited = false.
C6_RateCeiling ==
  \A t \in 0..MaxRateTime :
    Cardinality({k \in 1..Len(admitted) :
                   admitted[k] > t - RateDuration /\ admitted[k] <= t}) <= RateMax

\* C7: dependency ordering.  A job submitted with a dependency that existed and
\* was not completed stays in dependency-wait, and is neither waiting nor
\* active, until that dependency has completed.
C7_DependencyOrdering ==
  \A b \in JobIds :
    mustWait[b] # {} => (b \in depWait /\ ~InList(waiting, b) /\ ~InList(active, b))

\* C8: delayed delivery.  A job submitted with delay d > 0 is not in active
\* before its submission timestamp + d.
C8_DelayedDelivery == \A j \in JobIds : InList(active, j) => now >= notBefore[j]

\* C9: priority ordering.  Of the jobs submitted without delay before
\* processing starts, a job of a higher level is dispatched before every job of
\* a lower level.
C9_PriorityOrdering ==
  \A a, b \in JobIds :
    (job[a].exists /\ job[b].exists /\ job[a].delay = 0 /\ job[b].delay = 0
       /\ job[a].priority > job[b].priority /\ InList(dispatched, b)) =>
      (InList(dispatched, a) /\ Pos(dispatched, a) < Pos(dispatched, b))

\* a was submitted before b
Before(a, b) ==
  InList(submitted, a) /\ InList(submitted, b) /\ Pos(submitted, a) < Pos(submitted, b)

\* C10: submission order.  Jobs submitted without delay and without lifo are
\* dispatched in the order of their submission; a job submitted with lifo is
\* dispatched before the jobs submitted before it.
C10_SubmissionOrder ==
  \A a, b \in JobIds :
    (Before(a, b) /\ job[a].delay = 0 /\ job[b].delay = 0) =>
      /\ (~job[a].lifo /\ ~job[b].lifo /\ InList(dispatched, b)) =>
           (InList(dispatched, a) /\ Pos(dispatched, a) < Pos(dispatched, b))
      /\ (job[b].lifo /\ InList(dispatched, a)) =>
           (InList(dispatched, b) /\ Pos(dispatched, b) < Pos(dispatched, a))

\* no worker is working on job id j and j is in none of waiting, active, delayed
Settled(j) ==
  /\ ~InList(waiting, j) /\ ~InList(active, j) /\ delayed[j] = NoTime
  /\ \A w \in Workers : tpc[w][j] = "none"

\* C11: dead-letter on exhaustion.  A job submitted once with dead-letter
\* enabled whose handler only failed and that has no retry left is in the
\* dead-letter list and, with removeFromOriginalQueue, not in failed.
C11_DeadLetterOnExhaustion ==
  \A j \in JobIds :
    (job[j].exists /\ job[j].deadLetter /\ adds = 1 /\ handed[j] > 0 /\ ~everCompleted[j]
       /\ Settled(j)) =>
      (InList(deadLetter, j) /\ (dlRemove => ~InList(failed, j)))

\* C12 as stated: pause gating.  At no instant at which the pause flag is set
\* does a worker move a job from waiting to active.
C12_NoDispatchWhilePaused ==
  [][paused.type # "none" =>
       \A j \in JobIds : ~(InList(waiting, j) /\ ~InList(waiting', j) /\ InList(active', j))]_vars

\* C12: pause gating per tick.  While the pause flag is set no worker starts
\* a tick, so every move from waiting to active belongs to a tick that found
\* the flag clear; when the flag is clear an idle running worker with a free
\* slot can start a tick.
C12_PausedTickSkipped ==
  [][/\ paused.type # "none" => \A w \in Workers : wpc[w] = "idle" => wpc'[w] = "idle"
     /\ paused.type = "none" =>
          \A w \in Workers :
            (running[w] /\ wpc[w] = "idle" /\ Cardinality(processing[w]) < concurrency[w])
              => ENABLED TickStart(w)]_vars

\* a job is waiting, the worker is running and idle, and the flag is set
\* after pause()
C12_Witness ==
  /\ paused.type = "string" /\ pauseCalled
  /\ running[1] /\ wpc[1] = "idle" /\ waiting # <<>>

\* C13: bulkPause is per job.  getJobCounts().paused is 1 (the key
\* <queue>:paused exists) only if pause() was called and not resumed.
C13_BulkPausePerJob == (paused.type # "none") => pauseCalled

\* C14: attempt counting.  A job submitted with attempts = 3 and exponential
\* backoff (delay > 0) whose handler threw on the first two invocations and
\* returned on the third is in completed with attemptsMade = 3.
C14_AttemptCounting ==
  \A j \in JobIds :
    (/\ job[j].exists /\ job[j].attempts = 3 /\ job[j].boType = "exponential"
     /\ job[j].boDelay > 0 /\ handed[j] = 3 /\ thrown[j] = 2 /\ everCompleted[j]
     /\ Settled(j)) =>
      (InList(completed, j) /\ job[j].attemptsMade = 3)

\* the step is the catch block of a worker for job j, and it leaves a retry
FailStep(j) == \E w \in Workers : tpc[w][j] = "fail" /\ tpc'[w][j] = "none"
RetryLeft(j) == job[j].exists /\ job'[j].attemptsMade < MaxAttemptsOf(job[j])

\* backoff.delay for fixed, backoff.delay * 2^(k-1) for exponential
BackoffOf(rec, k) ==
  IF rec.boType = "exponential" THEN rec.boDelay * Pow2(k - 1) ELSE rec.boDelay

\* the retry is scheduled `d` after now (at once when d = 0)
RetryAfter(j, d) ==
  IF d > 0 THEN delayed'[j] = now + d /\ waiting' = waiting
  ELSE delayed'[j] = delayed[j] /\ waiting' = LPush(waiting, j)

\* C15 as stated: backoff.  The delay before the retry that follows the k-th
\* handler failure of a job is BackoffOf(job, k).
C15_BackoffByFailures ==
  [][\A j \in JobIds : (FailStep(j) /\ RetryLeft(j)) => RetryAfter(j, BackoffOf(job[j], thrown[j]))]_vars

\* C15: backoff.  The delay before the retry that follows a handler failure is
\* BackoffOf(job, attemptsMade), attemptsMade being the counter after
\* moveToFailed (handler failures and stalled recoveries of the job so far).
C15_BackoffByAttemptsMade ==
  [][\A j \in JobIds :
       (FailStep(j) /\ RetryLeft(j)) => RetryAfter(j, BackoffOf(job[j], job'[j].attemptsMade))]_vars

\* the second failure of a job with exponential backoff was delayed by 2 * delay
C15_Witness ==
  \E j \in JobIds :
    /\ job[j].boType = "exponential" /\ job[j].boDelay = 1 /\ job[j].attemptsMade = 2
    /\ thrown[j] = 2 /\ delayed[j] = now + 2

\* job j is in active, its processedOn is older than the stall threshold and
\* nobody holds its lock
StalledUnlocked(j) ==
  /\ InList(active, j) /\ job[j].exists /\ jobLock[j] = NoWorker
  /\ job[j].processedOn # NoTime /\ now - job[j].processedOn >= StalledThreshold

\* C16: stalled recovery.  One run of the stalled checker on such a job takes
\* it out of active; with attemptsMade < maxStalledRetries it pushes it to
\* waiting, adds exactly 1 to attemptsMade and emits one jobStalled; otherwise
\* it pushes it to failed as a failed job and emits nothing.
C16_StalledRecovery ==
  [][\A j \in JobIds :
       (StalledUnlocked(j) /\ StalledCheck(j)) =>
         /\ ~InList(active', j)
         /\ IF job[j].attemptsMade < MaxStalledRetries
              THEN /\ waiting' = LPush(waiting, j) /\ failed' = failed
                   /\ job'[j].attemptsMade = job[j].attemptsMade + 1
                   /\ jobStalled'[j] = jobStalled[j] + 1
              ELSE /\ failed' = LPush(failed, j) /\ waiting' = waiting
                   /\ job'[j].finishedOn
                   /\ jobStalled' = jobStalled]_vars

\* a job whose handler had thrown (the lock is free again) and whose
\* processedOn is old was recovered once: it is in waiting with attemptsMade 1
C16_Witness ==
  \E j \in JobIds :
    /\ jobStalled[j] = 1 /\ thrown[j] = 1 /\ job[j].attemptsMade = 1
    /\ job[j].processedOn # NoTime /\ now - job[j].processedOn >= StalledThreshold
    /\ InList(waiting, j) /\ ~InList(active, j) /\ jobLock[j] = NoWorker

\* job id j is in the dead-letter store: in the list, with its record
InDeadLetter(j) == InList(deadLetter, j) /\ dlRecord[j].exists

\* C17: republish round trip.  For a job in the dead-letter store,
\* republishJob(id, {resetRetries: true}) first adds the job to the head of
\* waiting with attemptsMade = 0, then removes the id from the dead-letter list
\* and deletes its record; for an id without a dead-letter record it returns
\* null and changes nothing else.
C17_RepublishRoundTrip ==
  [][\A j \in JobIds :
       /\ (InDeadLetter(j) /\ RepublishAdd(j, TRUE)) =>
            (job'[j].exists /\ job'[j].attemptsMade = 0 /\ waiting' = LPush(waiting, j))
       /\ RepublishRemove(j) => (~InList(deadLetter', j) /\ ~dlRecord'[j].exists
                                  /\ dlResult'[j] = "job")
       /\ (~dlRecord[j].exists /\ \E r \in BOOLEAN : RepublishAdd(j, r)) =>
            (/\ dlResult'[j] = "null"
             /\ <<redisVars, deadLetter, dlRecord, workerVars>>' =
                  <<redisVars, deadLetter, dlRecord, workerVars>>)]_vars

\* a dead-lettered job was republished with resetRetries and is waiting again
C17_Witness ==
  \E j \in JobIds :
    /\ dlResult[j] = "job" /\ adds = 2 /\ job[j].attempts = 0 /\ job[j].attemptsMade = 0
    /\ InList(waiting, j) /\ ~InList(deadLetter, j) /\ ~dlRecord[j].exists

\* C18: auto-removal.  A job submitted with removeOnComplete that has
\* completed is not in completed and has no record; a job submitted with
\* removeOnFail that has finally failed is not in failed.
C18_AutoRemoval ==
  \A j \in JobIds :
    (job[j].exists /\ Settled(j)) =>
      /\ (job[j].removeOnComplete /\ everCompleted[j]) => ~InList(completed, j)
      /\ (job[j].removeOnFail /\ ~everCompleted[j] /\ handed[j] > 0) => ~InList(failed, j)

\* the job is due to run again: it is in waiting, delayed or active, or a
\* worker is on it
Pending(j) == ~Settled(j)

\* C19: cron recurrence.  After a job scheduled with a cron expression has
\* completed, a following firing is submitted unless endDate has passed or the
\* number of firings has reached limit; the firings never exceed limit.
C19_CronRecurrence ==
  \A j \in JobIds :
    (job[j].exists /\ job[j].cron) =>
      /\ (/\ everCompleted[j] /\ InList(completed, j)
          /\ (job[j].limit = 0 \/ handed[j] < job[j].limit)
          /\ (job[j].endDate = NoTime \/ now <= job[j].endDate)) => Pending(j)
      /\ (job[j].limit > 0 /\ thrown[j] = 0) => handed[j] <= job[j].limit

\* C20: leader-only singleton tasks.  Every cleanup pass and every eviction
\* pass was run by an instance that was the leader at that time.
C20_LeaderOnlyTasks == \A r \in ran : r[3]

\* C21: once the current leader has crashed, a surviving instance that was
\* not leader has run becomeLeader, which sets isLeader and calls
\* onBecomeLeader, by the time leaderTimeout plus one heartbeatInterval has
\* passed.
C21_Failover ==
  (crashedAt # NoTime /\ now >= crashedAt + LeaderTimeout + 1)
    => \E i \in Instances \ crashed : i \in became

\* the leader crashed, the bound has passed and a survivor holds the leader key
C21_Witness ==
  /\ crashedAt # NoTime
  /\ now >= crashedAt + LeaderTimeout + 1
  /\ \E i \in Instances \ crashed :
       i \in became /\ isLeader[i] /\ leaderKey # <<>> /\ leaderKey[1] = i

Quiescent ==
  \A w \in Workers : wpc[w] = "idle" /\ \A j \in JobIds : tpc[w][j] \in {"none", "run"}

\* job id j is in completed, failed or the dead-letter list
Terminal(j) == InList(completed, j) \/ InList(failed, j) \/ InList(deadLetter, j)

\* C23: finishedOn marks terminal states only.  At every quiescent instant
\* the finishedOn of a job is set exactly when the job is in completed, failed
\* or dead-letter, and a job in waiting, delayed or active has none.
C23_FinishedOnTerminal ==
  Quiescent =>
    \A j \in JobIds :
      job[j].exists =>
        /\ job[j].finishedOn <=> Terminal(j)
        /\ (InList(waiting, j) \/ delayed[j] # NoTime \/ InList(active, j)) => ~job[j].finishedOn

\* C24: dependency-wait invariant.  At every quiescent instant every job in
\* the dependency-wait set has at least one dependency whose finishedOn is
\* not set.
C24_DependencyWait ==
  Quiescent =>
    \A j \in depWait :
      \E d \in job[j].dependencies : job[d].exists /\ ~job[d].finishedOn

\* a string of digits
IsNumber(s) == s # <<>> /\ \A i \in 1..Len(s) : IsDigit(s[i])

\* one part of a field is a value, a range a-b, or a step */n or a/n, with
\* values between min and max, a <= b and n > 0
WellFormedPart(part, min, max) ==
  \/ IsNumber(part) /\ ParseInt(part) \in min..max
  \/ \E k \in 1..Len(part) :
       LET left == SubSeq(part, 1, k - 1)
           right == SubSeq(part, k + 1, Len(part))
       IN \/ /\ part[k] = "-" /\ IsNumber(left) /\ IsNumber(right)
             /\ min <= ParseInt(left) /\ ParseInt(left) <= ParseInt(right)
             /\ ParseInt(right) <= max
          \/ /\ part[k] = "/" /\ IsNumber(right) /\ ParseInt(right) > 0
             /\ left = Star \/ (IsNumber(left) /\ ParseInt(left) \in min..max)

WellFormedField(field, min, max) ==
  field = Star \/
    \A i \in 1..Len(Split(field, ",")) : WellFormedPart(Split(field, ",")[i], min, max)

\* a cron expression is five well-formed fields
WellFormed(expr) ==
  /\ Len(expr) = 5
  /\ WellFormedField(expr[1], 0, 59) /\ WellFormedField(expr[2], 0, 23)
  /\ WellFormedField(expr[3], 1, 31) /\ WellFormedField(expr[4], 1, 12)
  /\ WellFormedField(expr[5], 0, 6)

\* the argument of the call does not pass for valid
InvalidCall(c) ==
  \/ c.op = "add" /\ c.num \notin Levels
  \/ c.op = "progress" /\ c.num \notin 0..100
  \/ c.op = "cron" /\ ~WellFormed(c.expr)

\* C25: validation errors mutate nothing.  PriorityQueue.add with a priority
\* outside 0..levels-1, Job.updateProgress with a value outside 0..100 and
\* schedule with a malformed cron expression raise an error and leave every
\* queue structure and every job record as it was.
C25_ValidationErrors ==
  [][(call'.n # call.n /\ InvalidCall(call'))
       => (call'.threw /\ UNCHANGED <<redisVars, prio, progress>>)]_vars

\* the hour and the minute of a date are in the schedule
MatchesSchedule(schedule, date) ==
  FieldMatches(schedule.hour, HourOf(date)) /\ FieldMatches(schedule.minute, MinuteOf(date))

\* C26: cron round trip.  For a schedule that parses and a reference time
\* the next fire time t is strictly later than the reference time, and the
\* next fire time computed from t is a t' > t that matches the schedule.
C26_CronRoundTrip ==
  /\ trip.pc \in {"first", "second"} => (trip.t # NoTime /\ trip.t > trip.ref)
  /\ trip.pc = "second" =>
       /\ trip.t2 # NoTime /\ trip.t2 > trip.t
       /\ MatchesSchedule(ParseCronExpression(trip.expr), trip.t2)

\* the step takes job id j out of active
LeavesActive(j) == InList(active, j) /\ ~InList(active', j)

\* the step is one of processJob of worker w for job j
StepOf(w, j) == tpc'[w][j] # tpc[w][j]

\* C27: lock required to leave active.  Every step that takes a job out of
\* active (to completed, to failed or back to waiting) is a step of the
\* process that holds the lock of the job at that moment.
C27_LockToLeaveActive ==
  [][\A j \in JobIds :
       LeavesActive(j) => \E w \in Workers : jobLock[j] = w /\ StepOf(w, j)]_vars

\* the step is one of the stalled checker on job j: no worker moved
StalledStep(j) == LeavesActive(j) /\ \A w \in Workers : ~StepOf(w, j)

\* C28: the stalled checker respects the lock.  It takes no job out of
\* active, to waiting or to failed, while a worker that is running or
\* completing the job holds its lock.
C28_StalledRespectsLock ==
  [][\A j \in JobIds :
       StalledStep(j) =>
         ~\E w \in Workers : jobLock[j] = w /\ tpc[w][j] \in {"run", "complete"}]_vars

\* the handler invocations of worker w that are running
InFlight(w) == {j \in JobIds : tpc[w][j] = "run"}

\* C29: concurrency bound.  A worker runs no more handler invocations at a
\* time than its concurrency, also when the calls of its poller overlap.
C29_ConcurrencyBound == \A w \in Workers : Cardinality(InFlight(w)) <= concurrency[w]

\* C30: exclusive dispatch.  When several pollers read the same waiting
\* list, each id is moved from waiting to active and handed to processJob by
\* at most one of them: active never holds an id twice and no two workers
\* are processing the same id.
C30_ExclusiveDispatch ==
  \A j \in JobIds :
    /\ Count(active, j) <= 1
    /\ Cardinality({w \in Workers : j \in processing[w]}) <= 1

\* the step of worker w is one iteration of the loop of moveDelayedJobsToWaiting
PromoteStep(w) ==
  /\ wpc[w] = "promote"
  /\ wReady[w] # <<>>
  /\ wReady'[w] = Tail(wReady[w])

\* C31: exactly-once promotion.  When several workers run the delayed
\* promoter concurrently, an id is pushed to waiting by the promoter only
\* while it is in delayed, so one stay in delayed gives one push: no promoter
\* pushes an id another promoter has already removed from delayed, which
\* would leave the id twice in waiting.
C31_ExactlyOncePromotion ==
  [][\A w \in Workers :
       PromoteStep(w) => delayed[Head(wReady[w])] # NoTime]_vars

\* the step is a call of adjustConcurrency by the adjustment timer of instance i
AdjustStep(i) == adjusted'[i].calls = adjusted[i].calls + 1

\* C32: coordinator-driven concurrency.  In horizontal-scaling mode every
\* call of adjustConcurrency with the coordinator's getWorkerCount() is
\* accepted: the count of a registered live instance is greater than 0, no
\* error is raised, the worker's concurrency then equals the count, and no
\* job in flight is touched.
C32_AdjustAccepted ==
  [][\A i \in Instances :
       AdjustStep(i) =>
         /\ (i \in ActiveInstances => coordWorkers[i] > 0)
         /\ ~adjusted'[i].threw
         /\ scaleConcurrency'[i] = coordWorkers[i]
         /\ UNCHANGED <<processing, tpc, active>>]_vars

\* C33: shutdown.  After stop() has been called the worker moves no further
\* job from waiting to active and hands no further id to processJob; stop
\* returns when the handlers in flight have finished or the timeout has
\* elapsed.
C33_StopDispatchesNothing ==
  [][\A w \in Workers :
       stop[w].pc # "none" =>
         /\ processing'[w] \subseteq processing[w]
         /\ (stop'[w].pc = "returned" /\ stop[w].pc = "waiting") =>
              (stop[w].promises \cap processing[w] = {} \/ now - stop[w].at >= StopTimeout)]_vars

\* C34: withLock releases on every path.  fn runs only after this call has
\* acquired the lock; once withLock has returned or rethrown after fn, the key
\* does not hold the token of this call; and a call whose retries + 1 attempts
\* all failed raises its error without having run fn.
C34_WithLockReleases ==
  \A c \in Clients :
    /\ (wl[c].pc = "fn" \/ wl[c].fn # "none") => wl[c].acquired
    /\ (wl[c].pc = "done" /\ wl[c].outcome \in {"returned", "threw"}) =>
         (wl[c].fn = wl[c].outcome /\ lockVal # wl[c].token)
    /\ (wl[c].pc = "done" /\ wl[c].outcome = "error") =>
         (wl[c].fn = "none" /\ ~wl[c].acquired /\ wl[c].attempt = LockRetries)

\* a call has rethrown the error of fn after releasing, and another call has
\* given up after its last attempt
C34_Witness ==
  \E c, d \in Clients :
    /\ wl[c].pc = "done" /\ wl[c].outcome = "threw" /\ lockVal # wl[c].token
    /\ wl[d].pc = "done" /\ wl[d].outcome = "error"

\* the step is a call of removeJob(j)
RemoveStep(j) == removed' = Append(removed, j)

\* C35: complete removal.  After removeJob(j) has returned, j is in none of
\* waiting, active, completed, failed, delayed, the paused list,
\* dependency-wait and the priority levels, and its hash and its dependents
\* set do not exist.
C35_CompleteRemoval ==
  [][\A j \in JobIds :
       RemoveStep(j) =>
         /\ StatesOf(j)' = 0
         /\ ~InList(paused'.ids, j)
         /\ \A l \in Levels : ~InList(prio'[l], j)
         /\ ~job'[j].exists
         /\ dependents'[j] = {}]_vars

\* the step stores the job of an add for which the limiter reported limited
LimitedStore == radd.pc = "store" /\ radd'.pc = "idle" /\ radd.limited

\* C36: rate-limited submission.  When the limiter reports limited for
\* add(data, opts), the job is stored in delayed with
\* delay = max(opts.delay, resetIn): the delay the caller asked for is never
\* shortened.
C36_RateLimitedDelay ==
  [][LimitedStore =>
       /\ delayed'[radd.id] = now + Max2(radd.asked, radd.resetIn)
       /\ job'[radd.id].delay >= radd.asked]_vars

\* job id j is in a priority level
InLevel(j) == \E l \in Levels : InList(prio[l], j)

\* C37: the priority pump loses and duplicates nothing.  Under every
\* interleaving of add, the pump and the reordering, an id that leaves the
\* priority levels is in waiting, no id is in a level and in waiting at a
\* time, and no id is in waiting or in the levels twice.
C37_PumpExactlyOnce ==
  [][\A j \in JobIds :
       /\ (InLevel(j) /\ ~InLevel(j)') => InList(waiting', j)
       /\ ~(InLevel(j)' /\ InList(waiting', j))
       /\ Count(waiting', j) <= 1
       /\ Count(AllLevels(PriorityLevels)', j) <= 1]_vars

\* C38: removal never re-enqueues a finished dependent.  removeJob of a job
\* pushes into waiting only dependents that are in dependency-wait when it is
\* called; a dependent that is waiting, active, completed or failed is never
\* pushed to waiting again.
C38_RemovalPushesWaitingOnly ==
  [][\A j, d \in JobIds :
       (RemoveStep(j) /\ Count(waiting', d) > Count(LRemAll(waiting, j), d)) =>
         /\ d \in depWait
         /\ ~InList(waiting, d) /\ ~InList(active, d)
         /\ ~InList(completed, d) /\ ~InList(failed, d)]_vars

\* C39: bulk-paused jobs are never lost.  Under every sequence of pause,
\* resume, bulkPause and bulkResume, an id leaves the paused list only when it
\* is bulk-resumed, which puts it in waiting, or removed, which deletes its
\* hash; so a bulk-paused job stays in the paused list until then.
C39_BulkPausedKept ==
  [][\A j \in JobIds :
       (paused.type = "list" /\ InList(paused.ids, j)
          /\ ~(paused'.type = "list" /\ InList(paused'.ids, j))) =>
         (InList(waiting', j) \/ ~job'[j].exists)]_vars

====
